---- MODULE Spec2Model ----
(***************************************************************************)
(* Model of the orchestration core of promptcraft-dungeon:                 *)
(*   backend/app/services/ai_service.py   (AIService)                      *)
(*   backend/app/services/game_service.py (GameService)                    *)
(*   backend/app/models/game.py, backend/app/schemas/ai_responses.py       *)
(*                                                                         *)
(* Conventions.  An Optional value is a sequence of length <= 1: <<>> is   *)
(* Python's None and <<v>> is the value v.  Texts that the code inspects   *)
(* character by character (numeric deltas, item names) are sequences of    *)
(* one-character strings; texts it only stores or tests for emptiness are  *)
(* TLA+ strings.                                                           *)
(***************************************************************************)
EXTENDS Integers, Sequences, FiniteSets, TLC

\* ------------------------------------------------------------------ bounds

\* Longest committed chat history from which a further call is explored.
MaxHistory == 3
\* Most events in one reply to a session command.
MaxEvents == 2
\* Most events in one reply given to _apply_ai_effects on its own.
MaxEffectEvents == 2

\* ------------------------------------------------------- program constants

DefaultHealth == 100
DefaultMaxHealth == 100
DefaultExperience == 0
DefaultLevel == 1
StartGold == 10

\* ----------------------------------------------------------------- options

None == <<>>
Some(v) == <<v>>
IsNone(o) == o = <<>>
IsSome(o) == o # <<>>
Val(o) == o[1]

\* Python truthiness of an Optional[str] held as an Optional TLA+ string.
TruthyStr(o) == IsSome(o) /\ Val(o) # ""

\* ------------------------------------------------------------------- texts

UpperCase == <<"A","B","C","D","E","F","G","H","I","J","K","L","M",
               "N","O","P","Q","R","S","T","U","V","W","X","Y","Z">>
LowerCase == <<"a","b","c","d","e","f","g","h","i","j","k","l","m",
               "n","o","p","q","r","s","t","u","v","w","x","y","z">>
Digits == <<"0","1","2","3","4","5","6","7","8","9">>
Whitespace == {" ", "\t", "\n"}

IsUpper(c) == \E i \in 1..26 : UpperCase[i] = c
IsDigit(c) == \E i \in 1..10 : Digits[i] = c
DigitVal(c) == (CHOOSE i \in 1..10 : Digits[i] = c) - 1

\* str.lower() on one character and on a text.
LowerChar(c) == IF IsUpper(c) THEN LowerCase[CHOOSE i \in 1..26 : UpperCase[i] = c] ELSE c
Lower(s) == [i \in 1..Len(s) |-> LowerChar(s[i])]

\* str.strip(): leading and trailing whitespace removed.
RECURSIVE LStrip(_)
LStrip(s) == IF s # <<>> /\ Head(s) \in Whitespace THEN LStrip(Tail(s)) ELSE s
RECURSIVE RStrip(_)
RStrip(s) == IF s # <<>> /\ s[Len(s)] \in Whitespace THEN RStrip(SubSeq(s, 1, Len(s) - 1)) ELSE s
Strip(s) == RStrip(LStrip(s))

\* str.replace(" ", "_").
ReplaceSpace(s) == [i \in 1..Len(s) |-> IF s[i] = " " THEN "_" ELSE s[i]]

\* Value of a non-empty text of decimal digits.
RECURSIVE DigitsValue(_)
DigitsValue(s) == IF s = <<>> THEN 0 ELSE 10 * DigitsValue(SubSeq(s, 1, Len(s) - 1)) + DigitVal(s[Len(s)])

\* int(text): surrounding whitespace dropped, an optional sign, then one or
\* more decimal digits; anything else raises ValueError (ok = FALSE).
ParseInt(s) ==
    LET t == Strip(s)
        signed == t # <<>> /\ Head(t) \in {"+", "-"}
        body == IF signed THEN Tail(t) ELSE t
        good == body # <<>> /\ \A i \in 1..Len(body) : IsDigit(body[i])
    IN IF ~good THEN [ok |-> FALSE, val |-> 0]
       ELSE [ok |-> TRUE,
             val |-> IF signed /\ Head(t) = "-" THEN 0 - DigitsValue(body) ELSE DigitsValue(body)]

Max(a, b) == IF a >= b THEN a ELSE b
Min(a, b) == IF a <= b THEN a ELSE b

RECURSIVE SeqsUpTo(_, _)
SeqsUpTo(S, n) == IF n = 0 THEN {<<>>}
                  ELSE LET shorter == SeqsUpTo(S, n - 1)
                       IN shorter \cup {Append(q, x) : q \in {r \in shorter : Len(r) = n - 1}, x \in S}

\* ------------------------------------------------------------------- state

VARIABLES
    ai,          \* the AIService instance: configuration and the probe memo
    gsr,         \* locals of the latest generate_structured_response call
    ai_result,   \* what the last such call returned: (ai_response, ai_error)
    pc,          \* position of the running service call, "idle" when none
    caller,      \* the GameService method that is running
    game_state_id, \* the session id the running handle_player_command was given
    command,     \* the player command being handled
    db,          \* the committed game_states rows (with player, inventory, chat), by id
    mem,         \* the session as loaded and changed in the open transaction
    flushed,     \* the open transaction holds flushed, uncommitted writes
    pre,         \* the committed rows when the running call began
    ret          \* what the last GameService call returned

vars == <<ai, gsr, ai_result, pc, caller, game_state_id, command, db, mem, flushed, pre, ret>>

\* ------------------------------------------------------- replies of the model

\* schemas/ai_responses.py: the fields AIResponse declares.  Reading any
\* other attribute of a validated reply raises AttributeError.
AIResponseFields ==
    {"action_result_description", "triggered_events", "room_description",
     "new_room_title", "suggested_actions", "sound_effect"}
HasField(f) == f \in AIResponseFields

NoEffects == [health |-> None, gold |-> None, xp |-> None,
              inventory_add |-> <<>>, inventory_remove |-> <<>>]

RustySword == <<"R","u","s","t","y"," ","S","w","o","r","d">>
rustysword == Lower(RustySword)
RUSTYSWORD == <<"R","U","S","T","Y"," ","S","W","O","R","D">>
GoldenKey == <<"G","o","l","d","e","n"," ","K","e","y">>
\* A name no row of the items table carries.
Torch == <<"T","o","r","c","h">>

\* Events a session reply is built from: each packs one kind of turn.
EvHurt == [effects |-> Some([NoEffects EXCEPT
              !.health = Some(<<"-","7","0">>), !.gold = Some(<<"-","2","0">>),
              !.xp = Some(<<"-","5">>), !.inventory_remove = <<RUSTYSWORD>>])]
EvLoot == [effects |-> Some([NoEffects EXCEPT
              !.health = Some(<<"+","3","0">>), !.gold = Some(<<"+","5">>),
              !.xp = Some(<<"+","1","0">>), !.inventory_add = <<RustySword>>])]
EvGarbled == [effects |-> Some([NoEffects EXCEPT
              !.health = Some(<<"a","b","c">>), !.gold = Some(<<"+","5">>),
              !.xp = Some(<<"1","0">>), !.inventory_add = <<rustysword>>])]
EvNarration == [effects |-> None]
SessionEvents == {EvHurt, EvLoot, EvGarbled, EvNarration}

Reply(ard, events, rd, title) ==
    [action_result_description |-> ard, triggered_events |-> events,
     room_description |-> rd, new_room_title |-> title]

\* Validated replies a provider can produce in a session: stationary turns
\* with up to MaxEvents events, an explicit null event list, room changes
\* with and without a title, and an empty description.
Replies ==
    {Reply("You wait.", Some(evs), None, None) : evs \in SeqsUpTo(SessionEvents, MaxEvents)}
    \cup {Reply("You wait.", None, None, None)}
    \cup {Reply("You push on.", Some(<<>>), rd, t) :
             rd \in {Some(""), Some("A flooded crypt.")}, t \in {None, Some("Crypt")}}
    \cup {Reply("", Some(<<>>), None, Some("Crypt"))}

\* Raw provider texts by what parsing makes of them.
RawResponses ==
    {[text |-> "json", data |-> r] : r \in Replies}
    \cup {[text |-> k, data |-> Reply("", None, None, None)] : k \in {"prose", "schema_invalid"}}

\* --------------------------------------------------------------- AIService

\* What one HTTP exchange with a provider can come to.
LocalOutcomes == {"ok", "timeout", "unreachable", "http403", "bad_structure"}
GeminiOutcomes == {"ok", "status403", "status500", "timeout", "unreachable", "no_content"}

NoException == [cls |-> "none", status |-> 0, text |-> ""]

\* Variant of CheckLocalOllama that reports local available whenever a URL
\* is set, whatever the probe or the memo says.
CheckLocalOllamaTrustsUrl(a, probe_ok) ==
    IF ~a.local_url
    THEN [ai |-> [a EXCEPT !.local_available = FALSE, !.local_checked = TRUE],
          ret |-> FALSE, probed |-> FALSE]
    ELSE IF a.local_checked
    THEN [ai |-> a, ret |-> TRUE, probed |-> FALSE]
    ELSE [ai |-> [a EXCEPT !.local_available = probe_ok, !.local_checked = TRUE],
          ret |-> TRUE, probed |-> TRUE]

\* Variant of CheckLocalOllama that probes the network on every call with
\* a URL, memo or no memo.
CheckLocalOllamaAlwaysProbes(a, probe_ok) ==
    IF ~a.local_url
    THEN [ai |-> [a EXCEPT !.local_available = FALSE, !.local_checked = TRUE],
          ret |-> FALSE, probed |-> FALSE]
    ELSE [ai |-> [a EXCEPT !.local_available = probe_ok, !.local_checked = TRUE],
          ret |-> probe_ok, probed |-> TRUE]

\* _check_local_ollama: the probe result is memoized; without a URL the
\* memo is set to unavailable with no network call.
CheckLocalOllama(a, probe_ok) ==
    IF ~a.local_url
    THEN [ai |-> [a EXCEPT !.local_available = FALSE, !.local_checked = TRUE],
          ret |-> FALSE, probed |-> FALSE]
    ELSE IF a.local_checked
    THEN [ai |-> a, ret |-> a.local_available, probed |-> FALSE]
    ELSE [ai |-> [a EXCEPT !.local_available = probe_ok, !.local_checked = TRUE],
          ret |-> probe_ok, probed |-> TRUE]

\* __init__: the configuration, then a first probe only when local is
\* preferred and a URL is set.
NewAIService(use_local, url, client, probe_ok) ==
    LET a == [use_local_preference |-> use_local, local_url |-> url,
              gemini_client |-> client,
              local_checked |-> FALSE, local_available |-> FALSE]
    IN IF use_local /\ url THEN CheckLocalOllama(a, probe_ok).ai ELSE a

\* _query_local: the exception each failure is raised as.
QueryLocal(a, outcome) ==
    IF ~a.local_url
    THEN [issued |-> FALSE, raw |-> None,
          exc |-> [cls |-> "ConnectionError", status |-> 0, text |-> "Ollama URL not configured."]]
    ELSE [issued |-> TRUE,
          raw |-> IF outcome = "ok" THEN Some("text") ELSE None,
          exc |-> CASE outcome = "ok" -> NoException
                    [] outcome = "timeout" ->
                         [cls |-> "TimeoutError", status |-> 0, text |-> "Local LLM request timed out"]
                    [] outcome = "http403" ->
                         [cls |-> "ConnectionError", status |-> 403, text |-> "Local LLM HTTP error 403"]
                    [] outcome = "unreachable" ->
                         [cls |-> "ConnectionError", status |-> 0, text |-> "Failed to connect to local LLM"]
                    [] OTHER ->
                         [cls |-> "AIResponseError", status |-> 0,
                          text |-> "Unexpected response structure from local Ollama."]]

\* _query_gemini: status errors are re-raised as they are, the others are
\* converted to TimeoutError, ConnectionError or RuntimeError.
QueryGemini(a, outcome) ==
    IF ~a.gemini_client
    THEN [issued |-> FALSE, raw |-> None,
          exc |-> [cls |-> "ConnectionError", status |-> 0, text |-> "Gemini client not initialized."]]
    ELSE [issued |-> TRUE,
          raw |-> IF outcome = "ok" THEN Some("text") ELSE None,
          exc |-> CASE outcome = "ok" -> NoException
                    [] outcome = "status403" ->
                         [cls |-> "APIStatusError", status |-> 403, text |-> "Gemini API error (Status 403)"]
                    [] outcome = "status500" ->
                         [cls |-> "APIStatusError", status |-> 500, text |-> "Gemini API error (Status 500)"]
                    [] outcome = "timeout" ->
                         [cls |-> "TimeoutError", status |-> 0, text |-> "Gemini request timed out"]
                    [] outcome = "unreachable" ->
                         [cls |-> "ConnectionError", status |-> 0, text |-> "Gemini API error"]
                    [] OTHER ->
                         [cls |-> "RuntimeError", status |-> 0, text |-> "Unexpected Gemini API error"]]

\* Locals of generate_structured_response as the call starts.
GsrInit ==
    [primary_service |-> "None", raw_response_str |-> None, error_message |-> None,
     attempt_local_fallback |-> FALSE, gemini_403_error_msg |-> None,
     queries |-> <<>>, probes |-> 0]

Logged(g, provider, outcome, q) ==
    IF q.issued THEN Append(g.queries, [provider |-> provider, outcome |-> outcome]) ELSE g.queries

\* Variant of PrimaryLocal that queries local Ollama a second time after a
\* failed first query.
PrimaryLocalRetrying(a, g, lo) ==
    LET q == QueryLocal(a, lo)
        once == Logged(g, "local", lo, q)
    IN [g EXCEPT !.primary_service = "Ollama",
                 !.queries = IF IsSome(q.raw) THEN once
                             ELSE Logged([g EXCEPT !.queries = once], "local", lo, q),
                 !.raw_response_str = q.raw,
                 !.error_message =
                     IF IsSome(q.raw) THEN g.error_message
                     ELSE Some(<<"Local AI failed: ", q.exc.text, ". ">>)]

\* Primary attempt against local Ollama: any exception is kept as the
\* error and leaves the response empty.
PrimaryLocal(a, g, lo) ==
    LET q == QueryLocal(a, lo)
    IN [g EXCEPT !.primary_service = "Ollama",
                 !.queries = Logged(g, "local", lo, q),
                 !.raw_response_str = q.raw,
                 !.error_message =
                     IF IsSome(q.raw) THEN g.error_message
                     ELSE Some(<<"Local AI failed: ", q.exc.text, ". ">>)]

\* Variant of Gemini403AsksFallback under which no Gemini error asks for
\* the local fallback.
GeminiNeverAsksFallback(exc) == FALSE

\* A status 403 raised by the primary Gemini attempt asks for the local fallback.
Gemini403AsksFallback(exc) == exc.cls = "APIStatusError" /\ exc.status = 403

\* Variant of PrimaryGemini that, finding no Gemini client, asks for the
\* local fallback as a status 403 does.
PrimaryGeminiFallsBackUnconfigured(a, g, go) ==
    IF ~a.gemini_client
    THEN [g EXCEPT !.primary_service = "Gemini",
                   !.attempt_local_fallback = TRUE,
                   !.gemini_403_error_msg =
                       Some(<<"Cloud AI service (Gemini) is not configured or available.">>),
                   !.error_message = Some(<<"Cloud AI service (Gemini) is not configured or available.">>)]
    ELSE LET q == QueryGemini(a, go)
             g1 == [g EXCEPT !.primary_service = "Gemini", !.queries = Logged(g, "cloud", go, q)]
         IN IF IsSome(q.raw)
            THEN [g1 EXCEPT !.raw_response_str = q.raw, !.error_message = None]
            ELSE IF q.exc.cls = "APIStatusError"
            THEN IF Gemini403AsksFallback(q.exc)
                 THEN [g1 EXCEPT !.attempt_local_fallback = TRUE,
                                 !.gemini_403_error_msg = Some(<<q.exc.text>>),
                                 !.error_message = Some(<<q.exc.text>>)]
                 ELSE [g1 EXCEPT !.error_message = Some(<<q.exc.text>>)]
            ELSE [g1 EXCEPT !.error_message =
                     Some((IF IsSome(g.error_message) THEN Val(g.error_message) ELSE <<>>)
                          \o <<"Cloud AI failed: ", q.exc.text>>)]

\* Primary attempt against Gemini.
PrimaryGemini(a, g, go) ==
    IF ~a.gemini_client
    THEN [g EXCEPT !.primary_service = "Gemini",
                   !.error_message = Some(<<"Cloud AI service (Gemini) is not configured or available.">>)]
    ELSE LET q == QueryGemini(a, go)
             g1 == [g EXCEPT !.primary_service = "Gemini", !.queries = Logged(g, "cloud", go, q)]
         IN IF IsSome(q.raw)
            THEN [g1 EXCEPT !.raw_response_str = q.raw, !.error_message = None]
            ELSE IF q.exc.cls = "APIStatusError"
            THEN IF Gemini403AsksFallback(q.exc)
                 THEN [g1 EXCEPT !.attempt_local_fallback = TRUE,
                                 !.gemini_403_error_msg = Some(<<q.exc.text>>),
                                 !.error_message = Some(<<q.exc.text>>)]
                 ELSE [g1 EXCEPT !.error_message = Some(<<q.exc.text>>)]
            ELSE [g1 EXCEPT !.error_message =
                     Some((IF IsSome(g.error_message) THEN Val(g.error_message) ELSE <<>>)
                          \o <<"Cloud AI failed: ", q.exc.text>>)]

\* Variant of LocalFailureFallsBack under which Gemini is queried after a
\* local primary whether or not local returned text.
LocalAlwaysFallsBack(g) == g.primary_service = "Ollama"

\* Variant of LocalFailureFallsBack under which a failed local primary is
\* never followed by a Gemini attempt.
LocalFailureNeverFallsBack(g) == FALSE

\* The guard of "Fallback 1": local was primary and produced no response.
LocalFailureFallsBack(g) == g.primary_service = "Ollama" /\ IsNone(g.raw_response_str)

\* Variant of FallbackToGemini whose error, when Gemini fails too, tells of
\* the Gemini failure only.
FallbackToGeminiForgetsLocal(a, g, go) ==
    IF ~a.gemini_client THEN g
    ELSE LET q == QueryGemini(a, go)
             g1 == [g EXCEPT !.queries = Logged(g, "cloud", go, q)]
         IN IF IsSome(q.raw)
            THEN [g1 EXCEPT !.raw_response_str = q.raw, !.error_message = None]
            ELSE [g1 EXCEPT !.error_message =
                     Some(<<"Fallback Cloud AI also failed: ", q.exc.text>>)]

\* Fallback 1, from a failed local primary to Gemini when a client exists.
FallbackToGemini(a, g, go) ==
    IF ~a.gemini_client THEN g
    ELSE LET q == QueryGemini(a, go)
             g1 == [g EXCEPT !.queries = Logged(g, "cloud", go, q)]
             before == IF IsSome(g.error_message) THEN Val(g.error_message)
                       ELSE <<"Local AI failed. ">>
         IN IF IsSome(q.raw)
            THEN [g1 EXCEPT !.raw_response_str = q.raw, !.error_message = None]
            ELSE [g1 EXCEPT !.error_message =
                     Some(before \o <<"Fallback Cloud AI also failed: ", q.exc.text>>)]

\* Variant of FallbackToLocal that queries local Ollama but hands back the
\* Gemini 403 error whatever local answered.
FallbackToLocalKeeps403(c, g, lo) ==
    LET g0 == [g EXCEPT !.probes = g.probes + (IF c.probed THEN 1 ELSE 0)]
    IN IF c.ai.local_url /\ c.ret
       THEN [g0 EXCEPT !.queries = Logged(g, "local", lo, QueryLocal(c.ai, lo)),
                       !.error_message = g.gemini_403_error_msg]
       ELSE [g0 EXCEPT !.error_message = g.gemini_403_error_msg]

\* Variant of FallbackToLocal that queries local Ollama whenever a URL is
\* set, whatever the probe reports.
FallbackToLocalIgnoresProbe(c, g, lo) ==
    LET g0 == [g EXCEPT !.probes = g.probes + (IF c.probed THEN 1 ELSE 0)]
    IN IF c.ai.local_url
       THEN LET q == QueryLocal(c.ai, lo)
                g1 == [g0 EXCEPT !.queries = Logged(g, "local", lo, q)]
            IN IF IsSome(q.raw)
               THEN [g1 EXCEPT !.raw_response_str = q.raw, !.error_message = None]
               ELSE [g1 EXCEPT !.error_message =
                        Some(Val(g.gemini_403_error_msg)
                             \o <<". Fallback to Local AI also failed: ", q.exc.text>>)]
       ELSE [g0 EXCEPT !.error_message = g.gemini_403_error_msg]

\* Fallback 2, from a Gemini 403 to local when a URL is set and the
\* (memoized) probe reports it available.  c is that probe's result.
FallbackToLocal(c, g, lo) ==
    LET g0 == [g EXCEPT !.probes = g.probes + (IF c.probed THEN 1 ELSE 0)]
    IN IF c.ai.local_url /\ c.ret
       THEN LET q == QueryLocal(c.ai, lo)
                g1 == [g0 EXCEPT !.queries = Logged(g, "local", lo, q)]
            IN IF IsSome(q.raw)
               THEN [g1 EXCEPT !.raw_response_str = q.raw, !.error_message = None]
               ELSE [g1 EXCEPT !.error_message =
                        Some(Val(g.gemini_403_error_msg)
                             \o <<". Fallback to Local AI also failed: ", q.exc.text>>)]
       ELSE [g0 EXCEPT !.error_message = g.gemini_403_error_msg]

\* Variant of ParseRaw that reports no error for a text that is not a
\* valid reply.
ParseRawSilentOnBadText(g, rawv) ==
    IF IsNone(g.raw_response_str)
    THEN [reply |-> None,
          error |-> IF IsSome(g.error_message) THEN g.error_message
                    ELSE Some(<<"AI query failed, but no specific error was captured.">>)]
    ELSE IF rawv.text = "json"
    THEN [reply |-> Some(rawv.data), error |-> None]
    ELSE [reply |-> None, error |-> None]

\* The final check and the parse of the raw text: a pair (reply, error).
ParseRaw(g, rawv) ==
    IF IsNone(g.raw_response_str)
    THEN [reply |-> None,
          error |-> IF IsSome(g.error_message) THEN g.error_message
                    ELSE Some(<<"AI query failed, but no specific error was captured.">>)]
    ELSE IF rawv.text = "json"
    THEN [reply |-> Some(rawv.data), error |-> None]
    ELSE [reply |-> None, error |-> Some(<<"AI response JSON decode failed">>)]

\* The probe results to consider: both when a network probe will run.
ProbeResults(a) == IF a.local_url /\ ~a.local_checked THEN BOOLEAN ELSE {FALSE}
NoProbe(a) == [ai |-> a, ret |-> FALSE, probed |-> FALSE]

\* generate_structured_response, step 1: choose the primary provider (the
\* probe runs only when local is preferred and a URL is set) and query it.
GSR_Primary ==
    /\ pc = "gsr_primary"
    /\ \E probe_ok \in ProbeResults(ai) :
          LET wanted == ai.use_local_preference /\ ai.local_url
              c == IF wanted THEN CheckLocalOllama(ai, probe_ok) ELSE NoProbe(ai)
              use_local_initially == wanted /\ c.ret
              g0 == [gsr EXCEPT !.probes = IF c.probed THEN 1 ELSE 0]
          IN /\ ai' = c.ai
             /\ \E o \in (IF use_local_initially THEN LocalOutcomes ELSE GeminiOutcomes) :
                   gsr' = IF use_local_initially THEN PrimaryLocal(c.ai, g0, o)
                          ELSE PrimaryGemini(c.ai, g0, o)
    /\ pc' = "gsr_fallback"
    /\ UNCHANGED <<ai_result, caller, game_state_id, command, db, mem, flushed, pre, ret>>

\* generate_structured_response, step 2: at most one of the two fallbacks.
GSR_Fallback ==
    /\ pc = "gsr_fallback"
    /\ IF LocalFailureFallsBack(gsr)
       THEN /\ \E o \in GeminiOutcomes : gsr' = FallbackToGemini(ai, gsr, o)
            /\ ai' = ai
       ELSE IF gsr.attempt_local_fallback
       THEN \E probe_ok \in ProbeResults(ai) :
               LET c == IF ai.local_url THEN CheckLocalOllama(ai, probe_ok) ELSE NoProbe(ai)
               IN /\ \E o \in LocalOutcomes : gsr' = FallbackToLocal(c, gsr, o)
                  /\ ai' = c.ai
       ELSE /\ gsr' = gsr
            /\ ai' = ai
    /\ pc' = "gsr_parse"
    /\ UNCHANGED <<ai_result, caller, game_state_id, command, db, mem, flushed, pre, ret>>

\* generate_structured_response, step 3: parse, validate and return to the
\* calling GameService method; the call's locals stay on record until the
\* next call starts.  The text a provider returned is opaque until it is
\* read here.
GSR_Return ==
    /\ pc = "gsr_parse"
    /\ \E rawv \in (IF IsSome(gsr.raw_response_str) THEN RawResponses
                    ELSE {[text |-> "none", data |-> Reply("", None, None, None)]}) :
          ai_result' = ParseRaw(gsr, rawv)
    /\ pc' = IF caller = "start_new_game" THEN "sng_after_ai" ELSE "hpc_after_ai"
    /\ UNCHANGED <<ai, gsr, caller, game_state_id, command, db, mem, flushed, pre, ret>>

\* switch_to_local: prefer local and probe again.
SwitchToLocal ==
    /\ pc = "idle"
    /\ \E probe_ok \in BOOLEAN :
          ai' = CheckLocalOllama([ai EXCEPT !.use_local_preference = TRUE,
                                            !.local_checked = FALSE], probe_ok).ai
    /\ UNCHANGED <<gsr, ai_result, pc, caller, game_state_id, command, db, mem, flushed, pre, ret>>

\* switch_to_cloud: prefer cloud.
SwitchToCloud ==
    /\ pc = "idle"
    /\ ai' = [ai EXCEPT !.use_local_preference = FALSE]
    /\ UNCHANGED <<gsr, ai_result, pc, caller, game_state_id, command, db, mem, flushed, pre, ret>>

\* ------------------------------------------------------- models/game.py rows

\* The items table: the Item definitions the database holds.
ItemRows ==
    {[id |-> 1, item_key |-> ReplaceSpace(rustysword), name |-> RustySword],
     [id |-> 2, item_key |-> ReplaceSpace(Lower(GoldenKey)), name |-> GoldenKey]}
ItemById(i) == CHOOSE it \in ItemRows : it.id = i

\* Player(name=..., gold=10) with the column defaults of the model.
NewPlayer ==
    [health |-> DefaultHealth, max_health |-> DefaultMaxHealth,
     experience |-> DefaultExperience, level |-> DefaultLevel, gold |-> StartGold,
     inventory_items |-> <<>>]

\* GameState(player=player, difficulty=...) with the column defaults.
NewGameState ==
    [player |-> NewPlayer, rooms_cleared |-> 0, current_room |-> None, chat_messages |-> <<>>]

\* model_dump_json of a reply as stored in a chat message: the serialized
\* reply is represented by its required field.
ModelDumpJson(r) == <<"json", r.action_result_description>>

\* GameState.add_chat_message
AddChatMessage(gs, role, content, turn_number) ==
    [gs EXCEPT !.chat_messages =
        Append(@, [role |-> role, content |-> content, turn_number |-> turn_number])]

\* GameState.get_chat_history_for_ai
GetChatHistoryForAI(gs) ==
    [i \in 1..Len(gs.chat_messages) |->
        [role |-> gs.chat_messages[i].role, content |-> gs.chat_messages[i].content]]

\* What a commit writes of a session: inventory entries deleted in the
\* transaction are gone, the others carry no deletion mark.
RECURSIVE LiveEntries(_)
LiveEntries(inv) ==
    IF inv = <<>> THEN <<>>
    ELSE IF Head(inv).deleted THEN LiveEntries(Tail(inv))
    ELSE <<Head(inv)>> \o LiveEntries(Tail(inv))
Persisted(gs) == [gs EXCEPT !.player.inventory_items = LiveEntries(@)]

\* --------------------------------------------- GameService._apply_ai_effects

\* Variant of ClampHealth without the floor at zero.
ClampHealthNoFloor(health, max_health, delta) == Min(max_health, health + delta)

\* player.health = max(0, min(player.max_health, player.health + delta))
ClampHealth(health, max_health, delta) == Max(0, Min(max_health, health + delta))

\* Variant of ClampGold without the floor at zero.
ClampGoldNoFloor(gold, delta) == gold + delta

\* player.gold = max(0, player.gold + delta)
ClampGold(gold, delta) == Max(0, gold + delta)

\* Variant of AddExperience that adds every delta, negative ones included.
AddExperienceAnySign(experience, delta) == experience + delta

\* experience grows by a positive delta only.
AddExperience(experience, delta) == IF delta > 0 THEN experience + delta ELSE experience

\* One stat of the try block: s.ok is FALSE once int() has raised, and
\* the rest of the block is then skipped.
HealthStep(s, eff) ==
    IF ~s.ok \/ IsNone(eff.health) THEN s
    ELSE LET r == ParseInt(Val(eff.health))
         IN IF ~r.ok THEN [s EXCEPT !.ok = FALSE]
            ELSE [s EXCEPT !.p.health = ClampHealth(s.p.health, s.p.max_health, r.val)]

GoldStep(s, eff) ==
    IF ~s.ok \/ IsNone(eff.gold) THEN s
    ELSE LET r == ParseInt(Val(eff.gold))
         IN IF ~r.ok THEN [s EXCEPT !.ok = FALSE]
            ELSE [s EXCEPT !.p.gold = ClampGold(s.p.gold, r.val)]

XpStep(s, eff) ==
    IF ~s.ok \/ IsNone(eff.xp) THEN s
    ELSE LET r == ParseInt(Val(eff.xp))
         IN IF ~r.ok THEN [s EXCEPT !.ok = FALSE]
            ELSE [s EXCEPT !.p.experience = AddExperience(s.p.experience, r.val)]

\* The stat changes of one event: health, then gold, then xp.
ApplyStats(p, eff) == XpStep(GoldStep(HealthStep([ok |-> TRUE, p |-> p], eff), eff), eff).p

\* Index of the first inventory entry whose item name, lowered, is the
\* given text; 0 when there is none.  Entries deleted earlier in the
\* transaction are still in the loaded collection.
FindByName(inv, name_lower) ==
    LET hits == {i \in 1..Len(inv) : Lower(ItemById(inv[i].item_id).name) = name_lower}
    IN IF hits = {} THEN 0 ELSE CHOOSE i \in hits : \A j \in hits : i <= j

\* Variant of RemoveOne that takes the first entry of the inventory when
\* none carries the name.
RemoveOneOrFirst(s, name) ==
    LET item_name_lower == Strip(Lower(name))
        found == FindByName(s.inv, item_name_lower)
        i == IF found = 0 /\ s.inv # <<>> THEN 1 ELSE found
    IN IF item_name_lower = <<>> THEN s
       ELSE IF i = 0 THEN s
       ELSE IF s.inv[i].quantity > 1
       THEN [inv |-> [s.inv EXCEPT ![i].quantity = @ - 1], count |-> s.count + 1]
       ELSE [inv |-> [s.inv EXCEPT ![i].deleted = TRUE], count |-> s.count + 1]

\* Variant of RemoveOne that decrements whatever the quantity is and
\* never deletes the entry.
RemoveOneDecrementsToZero(s, name) ==
    LET item_name_lower == Strip(Lower(name))
        i == FindByName(s.inv, item_name_lower)
    IN IF item_name_lower = <<>> THEN s
       ELSE IF i = 0 THEN s
       ELSE [inv |-> [s.inv EXCEPT ![i].quantity = @ - 1], count |-> s.count + 1]

\* One name of inventory_remove.
RemoveOne(s, name) ==
    LET item_name_lower == Strip(Lower(name))
        i == FindByName(s.inv, item_name_lower)
    IN IF item_name_lower = <<>> THEN s
       ELSE IF i = 0 THEN s
       ELSE IF s.inv[i].quantity > 1
       THEN [inv |-> [s.inv EXCEPT ![i].quantity = @ - 1], count |-> s.count + 1]
       ELSE [inv |-> [s.inv EXCEPT ![i].deleted = TRUE], count |-> s.count + 1]

RECURSIVE RemoveAll(_, _)
RemoveAll(s, names) ==
    IF names = <<>> THEN s ELSE RemoveAll(RemoveOne(s, Head(names)), Tail(names))

\* SQL LIKE of a text against a pattern, case folded by the caller:
\* "_" is any one character, "%" any run of characters.
RECURSIVE Like(_, _)
Like(t, pat) ==
    IF pat = <<>> THEN t = <<>>
    ELSE IF Head(pat) = "%" THEN Like(t, Tail(pat)) \/ (t # <<>> /\ Like(Tail(t), pat))
    ELSE t # <<>> /\ (Head(pat) = "_" \/ Head(pat) = Head(t)) /\ Like(Tail(t), Tail(pat))
ILike(t, pat) == Like(Lower(t), Lower(pat))

\* select(Item).where(item_key == key or name ilike clean)
ItemMatches(item_key, item_name_clean) ==
    {it \in ItemRows : it.item_key = item_key \/ ILike(it.name, item_name_clean)}

\* Variant of AddOne that creates an entry for every addition, held or not.
AddOneAlwaysAppends(s, name) ==
    LET item_name_clean == Strip(name)
        item_key == ReplaceSpace(Lower(item_name_clean))
        found == ItemMatches(item_key, item_name_clean)
    IN IF s.raised \/ item_name_clean = <<>> THEN s
       ELSE IF Cardinality(found) > 1 THEN [s EXCEPT !.raised = TRUE]
       ELSE IF found = {} THEN s
       ELSE [s EXCEPT !.inv = Append(@, [item_id |-> (CHOOSE it \in found : TRUE).id,
                                         quantity |-> 1, deleted |-> FALSE]),
                      !.count = @ + 1]

\* One name of inventory_add; s.raised is set when scalar_one_or_none
\* finds more than one row.
AddOne(s, name) ==
    LET item_name_clean == Strip(name)
        item_key == ReplaceSpace(Lower(item_name_clean))
        found == ItemMatches(item_key, item_name_clean)
    IN IF s.raised \/ item_name_clean = <<>> THEN s
       ELSE IF Cardinality(found) > 1 THEN [s EXCEPT !.raised = TRUE]
       ELSE IF found = {} THEN s
       ELSE LET item_def == CHOOSE it \in found : TRUE
                hits == {i \in 1..Len(s.inv) : s.inv[i].item_id = item_def.id}
            IN IF hits # {}
               THEN LET i == CHOOSE k \in hits : \A j \in hits : k <= j
                    IN [s EXCEPT !.inv[i].quantity = @ + 1, !.count = @ + 1]
               ELSE [s EXCEPT !.inv = Append(@, [item_id |-> item_def.id, quantity |-> 1,
                                                 deleted |-> FALSE]),
                              !.count = @ + 1]

RECURSIVE AddAll(_, _)
AddAll(s, names) ==
    IF names = <<>> THEN s ELSE AddAll(AddOne(s, Head(names)), Tail(names))

\* The effects of one event: stats, then removals (flushed), then
\* additions (flushed).  s = [p, raised, flushed].
ApplyEvent(s, event) ==
    IF s.raised \/ IsNone(event.effects) THEN s
    ELSE LET eff == Val(event.effects)
             p1 == ApplyStats(s.p, eff)
             rem == RemoveAll([inv |-> p1.inventory_items, count |-> 0], eff.inventory_remove)
             add == AddAll([inv |-> rem.inv, count |-> 0, raised |-> FALSE], eff.inventory_add)
         IN [p |-> [p1 EXCEPT !.inventory_items = add.inv],
             raised |-> add.raised,
             flushed |-> s.flushed \/ rem.count > 0 \/ add.count > 0]

\* Variant of ApplyEvents that processes the last event first.
RECURSIVE ApplyEventsLastFirst(_, _)
ApplyEventsLastFirst(s, events) ==
    IF events = <<>> THEN s
    ELSE ApplyEvent(ApplyEventsLastFirst(s, Tail(events)), Head(events))

RECURSIVE ApplyEvents(_, _)
ApplyEvents(s, events) ==
    IF events = <<>> THEN s ELSE ApplyEvents(ApplyEvent(s, Head(events)), Tail(events))

\* _apply_ai_effects: iterating a null triggered_events raises TypeError.
ApplyAIEffects(player, ai_response) ==
    IF IsNone(ai_response.triggered_events)
    THEN [p |-> player, raised |-> TRUE, flushed |-> FALSE]
    ELSE ApplyEvents([p |-> player, raised |-> FALSE, flushed |-> FALSE],
                     Val(ai_response.triggered_events))

\* ---------------------------------------------------------------- GameService

\* The player commands a request may carry.
Commands == {"look"}

NoResult == [reply |-> None, error |-> None]
NoReturn == [op |-> "none", session |-> None, reply |-> None, error |-> None]

\* start_new_game, steps 1-2: create player and session, add and flush
\* them, then call the AI service with an empty history.
SNG_Begin ==
    /\ pc = "idle"
    /\ \A i \in 1..Len(db) : Len(db[i].chat_messages) <= MaxHistory
    /\ pc' = "gsr_primary"
    /\ caller' = "start_new_game"
    /\ game_state_id' = Len(db) + 1
    /\ command' = "<INITIAL_GENERATION>"
    /\ mem' = Some(NewGameState)
    /\ flushed' = TRUE
    /\ pre' = db
    /\ gsr' = GsrInit
    /\ ai_result' = NoResult
    /\ ret' = NoReturn
    /\ UNCHANGED <<ai, db>>

\* The room start_new_game builds from the first reply.
InitialRoom(r) ==
    [title |-> IF TruthyStr(r.new_room_title) THEN Val(r.new_room_title) ELSE "The Beginning",
     description |-> r.action_result_description,
     exits |-> <<>>,
     events |-> Val(r.triggered_events)]

\* start_new_game, steps 3-7 after the AI call: every failure rolls the
\* transaction back and returns (None, error).
SNG_Finish ==
    /\ pc = "sng_after_ai"
    /\ \E commit_ok \in BOOLEAN :
          LET failed(msg) ==
                  /\ db' = db
                  /\ ret' = [op |-> "start_new_game", session |-> None, reply |-> None,
                             error |-> Some(msg)]
              r == Val(ai_result.reply)
              gs1 == AddChatMessage([Val(mem) EXCEPT !.current_room = Some(InitialRoom(r))],
                                    "assistant", ModelDumpJson(r), 0)
              eff == ApplyAIEffects(gs1.player, r)
              gs2 == Persisted([gs1 EXCEPT !.player = eff.p])
          IN IF IsSome(ai_result.error) \/ IsNone(ai_result.reply)
             THEN failed(<<"AI failed to generate initial room: ">>
                         \o (IF IsSome(ai_result.error) THEN Val(ai_result.error)
                             ELSE <<"No response">>))
             ELSE IF r.action_result_description = ""
             THEN failed(<<"AI response for initial room lacked essential 'action_result_description'.">>)
             ELSE IF ~HasField("new_room_exits") \/ IsNone(r.triggered_events)
                     \/ eff.raised \/ ~commit_ok
             THEN failed(<<"An unexpected server error occurred during game creation">>)
             ELSE /\ db' = Append(db, gs2)
                  /\ ret' = [op |-> "start_new_game", session |-> Some(gs2), reply |-> None,
                             error |-> None]
    /\ pc' = "idle"
    /\ mem' = None
    /\ flushed' = FALSE
    /\ UNCHANGED <<ai, gsr, ai_result, caller, game_state_id, command, pre>>

\* Variant of HPC_Begin that appends the player's command to the history
\* as soon as the session is loaded, before the AI service is called.
HPC_BeginWritesCommandFirst ==
    /\ pc = "idle"
    /\ \E gid \in 1..Len(db), cmd \in Commands :
          /\ Len(db[gid].chat_messages) <= MaxHistory
          /\ caller' = "handle_player_command"
          /\ game_state_id' = gid
          /\ command' = cmd
          /\ gsr' = GsrInit
          /\ ai_result' = NoResult
          /\ flushed' = FALSE
          /\ pre' = db
          /\ pc' = "gsr_primary"
          /\ mem' = Some(AddChatMessage(db[gid], "user", <<"text", cmd>>,
                                        Len(db[gid].chat_messages)))
          /\ ret' = NoReturn
    /\ UNCHANGED <<ai, db>>

\* Variant of HPC_Begin that calls the AI service before it looks at what
\* the load returned.
HPC_BeginQueriesUnknownSession ==
    /\ pc = "idle"
    /\ \E gid \in 1..(Len(db) + 1), cmd \in Commands :
          /\ gid <= Len(db) => Len(db[gid].chat_messages) <= MaxHistory
          /\ caller' = "handle_player_command"
          /\ game_state_id' = gid
          /\ command' = cmd
          /\ gsr' = GsrInit
          /\ ai_result' = NoResult
          /\ flushed' = FALSE
          /\ pre' = db
          /\ pc' = "gsr_primary"
          /\ mem' = IF gid > Len(db) THEN None ELSE Some(db[gid])
          /\ ret' = NoReturn
    /\ UNCHANGED <<ai, db>>

\* handle_player_command, steps 1-3: load the session; an unknown id
\* returns at once, otherwise the AI service is called with the history.
HPC_Begin ==
    /\ pc = "idle"
    /\ \E gid \in 1..(Len(db) + 1), cmd \in Commands :
          /\ gid <= Len(db) => Len(db[gid].chat_messages) <= MaxHistory
          /\ caller' = "handle_player_command"
          /\ game_state_id' = gid
          /\ command' = cmd
          /\ gsr' = GsrInit
          /\ ai_result' = NoResult
          /\ flushed' = FALSE
          /\ pre' = db
          /\ IF gid > Len(db)
             THEN /\ pc' = "idle"
                  /\ mem' = None
                  /\ ret' = [op |-> "handle_player_command", session |-> None, reply |-> None,
                             error |-> Some(<<"Game session not found. Please start a new game.">>)]
             ELSE /\ pc' = "gsr_primary"
                  /\ mem' = Some(db[gid])
                  /\ ret' = NoReturn
    /\ UNCHANGED <<ai, db>>

\* Variant of ReturnOnAIFailure that returns the session with the player's
\* command already appended to its history.
ReturnOnAIFailureWithCommand(game_state, result) ==
    [op |-> "handle_player_command",
     session |-> Some(AddChatMessage(game_state, "user", <<"text", command>>,
                                     Len(game_state.chat_messages))),
     reply |-> None,
     error |-> Some(<<"AI interaction failed: ">>
                    \o (IF IsSome(result.error) THEN Val(result.error) ELSE <<"No response">>))]

\* The tuple handle_player_command returns when the AI call failed: the
\* loaded game_state, no reply, the error.
ReturnOnAIFailure(game_state, result) ==
    [op |-> "handle_player_command", session |-> Some(game_state), reply |-> None,
     error |-> Some(<<"AI interaction failed: ">>
                    \o (IF IsSome(result.error) THEN Val(result.error) ELSE <<"No response">>))]

\* handle_player_command, step 4: an AI failure returns the loaded
\* session as it is, with no commit and no rollback.
HPC_AfterAI ==
    /\ pc = "hpc_after_ai"
    /\ IF IsSome(ai_result.error) \/ IsNone(ai_result.reply)
       THEN /\ pc' = "idle"
            /\ ret' = ReturnOnAIFailure(Val(mem), ai_result)
            /\ mem' = None
       ELSE /\ pc' = "hpc_history"
            /\ UNCHANGED <<ret, mem>>
    /\ UNCHANGED <<ai, gsr, ai_result, caller, game_state_id, command, db, flushed, pre>>

\* Variant of HPC_AddHistory that gives the reply the turn number of the
\* command it answers.
HPC_AddHistorySameTurn ==
    /\ pc = "hpc_history"
    /\ LET current_turn == Len(GetChatHistoryForAI(pre[game_state_id]))
           gs1 == AddChatMessage(Val(mem), "user", <<"text", command>>, current_turn)
       IN mem' = Some(AddChatMessage(gs1, "assistant", ModelDumpJson(Val(ai_result.reply)),
                                     current_turn))
    /\ pc' = "hpc_effects"
    /\ UNCHANGED <<ai, gsr, ai_result, caller, game_state_id, command, db, flushed, pre, ret>>

\* Variant of HPC_AddHistory that appends the reply before the command.
HPC_AddHistoryReplyFirst ==
    /\ pc = "hpc_history"
    /\ LET current_turn == Len(GetChatHistoryForAI(pre[game_state_id]))
           gs1 == AddChatMessage(Val(mem), "assistant", ModelDumpJson(Val(ai_result.reply)),
                                 current_turn)
       IN mem' = Some(AddChatMessage(gs1, "user", <<"text", command>>, current_turn + 1))
    /\ pc' = "hpc_effects"
    /\ UNCHANGED <<ai, gsr, ai_result, caller, game_state_id, command, db, flushed, pre, ret>>

\* handle_player_command, step 5: the user command and the reply join the
\* history with the turn numbers computed from the loaded history.
HPC_AddHistory ==
    /\ pc = "hpc_history"
    /\ LET current_turn == Len(GetChatHistoryForAI(pre[game_state_id]))
           gs1 == AddChatMessage(Val(mem), "user", <<"text", command>>, current_turn)
       IN mem' = Some(AddChatMessage(gs1, "assistant", ModelDumpJson(Val(ai_result.reply)),
                                     current_turn + 1))
    /\ pc' = "hpc_effects"
    /\ UNCHANGED <<ai, gsr, ai_result, caller, game_state_id, command, db, flushed, pre, ret>>

\* Variant of HPC_Rollback that hands back the session as changed in memory.
HPC_RollbackReturnsSession ==
    /\ pc' = "idle"
    /\ mem' = None
    /\ flushed' = FALSE
    /\ ret' = [op |-> "handle_player_command", session |-> mem, reply |-> None,
               error |-> Some(<<"An unexpected server error occurred">>)]
    /\ UNCHANGED <<ai, gsr, ai_result, caller, game_state_id, command, db, pre>>

\* Variant of HPC_Rollback without the rollback: what was flushed stays
\* in the database.
HPC_NoRollback ==
    /\ pc' = "idle"
    /\ mem' = None
    /\ flushed' = FALSE
    /\ ret' = [op |-> "handle_player_command", session |-> None, reply |-> None,
               error |-> Some(<<"An unexpected server error occurred">>)]
    /\ db' = IF flushed THEN [db EXCEPT ![game_state_id] = Persisted(Val(mem))] ELSE db
    /\ UNCHANGED <<ai, gsr, ai_result, caller, game_state_id, command, pre>>

\* The except clause of handle_player_command: roll back, return no session.
HPC_Rollback ==
    /\ pc' = "idle"
    /\ mem' = None
    /\ flushed' = FALSE
    /\ ret' = [op |-> "handle_player_command", session |-> None, reply |-> None,
               error |-> Some(<<"An unexpected server error occurred">>)]
    /\ UNCHANGED <<ai, gsr, ai_result, caller, game_state_id, command, db, pre>>

\* handle_player_command, step 6: _apply_ai_effects on the loaded player.
HPC_ApplyEffects ==
    /\ pc = "hpc_effects"
    /\ LET eff == ApplyAIEffects(Val(mem).player, Val(ai_result.reply))
       IN IF eff.raised
          THEN HPC_Rollback
          ELSE /\ mem' = Some([Val(mem) EXCEPT !.player = eff.p])
               /\ flushed' = (flushed \/ eff.flushed)
               /\ pc' = "hpc_room"
               /\ UNCHANGED <<ai, gsr, ai_result, caller, game_state_id, command, db, pre, ret>>

\* The room a reply with a room_description moves the session to.
NewRoom(r) ==
    [title |-> IF TruthyStr(r.new_room_title) THEN Val(r.new_room_title) ELSE "Unknown Area",
     description |-> Val(r.room_description),
     exits |-> <<>>,
     events |-> <<>>]

\* Variant of HPC_UpdateRoom that also counts a turn without a
\* room_description as a room cleared.
HPC_UpdateRoomCountsEveryTurn ==
    /\ pc = "hpc_room"
    /\ LET r == Val(ai_result.reply)
       IN IF TruthyStr(r.room_description) /\ ~HasField("new_room_exits")
          THEN HPC_Rollback
          ELSE /\ mem' = Some([Val(mem) EXCEPT !.rooms_cleared = @ + 1])
               /\ pc' = "hpc_commit"
               /\ UNCHANGED <<ai, gsr, ai_result, caller, game_state_id, command, db,
                              flushed, pre, ret>>

\* Variant of HPC_UpdateRoom that takes a new_room_title without a
\* room_description for a move: the title is stored and the room counted.
HPC_UpdateRoomOnTitle ==
    /\ pc = "hpc_room"
    /\ LET r == Val(ai_result.reply)
       IN IF TruthyStr(r.room_description)
          THEN HPC_Rollback
          ELSE /\ mem' = Some(IF TruthyStr(r.new_room_title) /\ IsSome(Val(mem).current_room)
                              THEN [Val(mem) EXCEPT !.current_room =
                                       Some([Val(@) EXCEPT !.title = Val(r.new_room_title)])]
                              ELSE Val(mem))
               /\ pc' = "hpc_commit"
               /\ UNCHANGED <<ai, gsr, ai_result, caller, game_state_id, command, db,
                              flushed, pre, ret>>

\* handle_player_command, step 7: a truthy room_description replaces the
\* room and counts it; building the room reads ai_response.new_room_exits.
HPC_UpdateRoom ==
    /\ pc = "hpc_room"
    /\ LET r == Val(ai_result.reply)
       IN IF TruthyStr(r.room_description)
          THEN IF ~HasField("new_room_exits")
               THEN HPC_Rollback
               ELSE /\ mem' = Some([Val(mem) EXCEPT !.current_room = Some(NewRoom(r)),
                                                    !.rooms_cleared = @ + 1])
                    /\ pc' = "hpc_commit"
                    /\ UNCHANGED <<ai, gsr, ai_result, caller, game_state_id, command, db,
                                   flushed, pre, ret>>
          ELSE /\ pc' = "hpc_commit"
               /\ UNCHANGED <<ai, gsr, ai_result, caller, game_state_id, command, db, mem,
                              flushed, pre, ret>>

\* handle_player_command, steps 8-9: commit and return the updated
\* session with the reply; a failing commit goes to the except clause.
HPC_Commit ==
    /\ pc = "hpc_commit"
    /\ \E commit_ok \in BOOLEAN :
          IF commit_ok
          THEN /\ db' = [db EXCEPT ![game_state_id] = Persisted(Val(mem))]
               /\ ret' = [op |-> "handle_player_command", session |-> Some(Persisted(Val(mem))),
                          reply |-> ai_result.reply, error |-> None]
               /\ pc' = "idle"
               /\ mem' = None
               /\ flushed' = FALSE
               /\ UNCHANGED <<ai, gsr, ai_result, caller, game_state_id, command, pre>>
          ELSE HPC_Rollback

\* ------------------------------------------------------------ specification

\* The session rows a database can hold when the service starts: what a
\* completed start_new_game commits for a first reply without effects.
SeedSession ==
    AddChatMessage([NewGameState EXCEPT !.current_room =
                        Some([title |-> "The Beginning", description |-> "You wake.",
                              exits |-> <<>>, events |-> <<>>])],
                   "assistant", ModelDumpJson(Reply("You wake.", Some(<<>>), None, None)), 0)

Init ==
    /\ \E use_local \in BOOLEAN, url \in BOOLEAN, client \in BOOLEAN, probe_ok \in BOOLEAN :
          ai = NewAIService(use_local, url, client, probe_ok)
    /\ gsr = GsrInit
    /\ ai_result = NoResult
    /\ pc = "idle"
    /\ caller = "none"
    /\ game_state_id = 0
    /\ command = ""
    /\ db \in {<<>>, <<SeedSession>>}
    /\ mem = None
    /\ flushed = FALSE
    /\ pre = db
    /\ ret = NoReturn

Next ==
    \/ SNG_Begin
    \/ SNG_Finish
    \/ HPC_Begin
    \/ HPC_AfterAI
    \/ HPC_AddHistory
    \/ HPC_ApplyEffects
    \/ HPC_UpdateRoom
    \/ HPC_Commit
    \/ GSR_Primary
    \/ GSR_Fallback
    \/ GSR_Return
    \/ SwitchToLocal
    \/ SwitchToCloud

Spec == Init /\ [][Next]_vars

\* ------------------------------------------ _apply_ai_effects on its own

\* Effect blocks over every combination of the three stat deltas, and
\* blocks that add an item, remove one or two, or remove one and add one.
StatEffects ==
    {[NoEffects EXCEPT !.health = h, !.gold = g, !.xp = x] :
        h \in {None, Some(<<"-","7","0">>), Some(<<"+","3","0">>), Some(<<"a","b","c">>)},
        g \in {None, Some(<<"-","2","0">>), Some(<<"+","5">>)},
        x \in {None, Some(<<"-","5">>), Some(<<"+","1","0">>)}}
ItemEffects ==
    {[NoEffects EXCEPT !.inventory_add = <<n>>] : n \in {RustySword, rustysword, Torch}}
    \cup {[NoEffects EXCEPT !.inventory_remove = names] :
              names \in {<<RUSTYSWORD>>, <<GoldenKey>>, <<GoldenKey, RUSTYSWORD>>}}
    \cup {[NoEffects EXCEPT !.inventory_remove = <<n>>, !.inventory_add = <<RustySword>>] :
              n \in {GoldenKey, RUSTYSWORD}}
EffectEvents == {[effects |-> Some(e)] : e \in StatEffects \cup ItemEffects}

\* Players the effects are applied to.
EffectPlayers ==
    {[NewPlayer EXCEPT !.health = h, !.inventory_items = inv] :
        h \in {50, DefaultHealth},
        inv \in {<<>>} \cup {<<[item_id |-> 1, quantity |-> q, deleted |-> FALSE]>> : q \in {1, 2}}}

EffInit ==
    /\ ai = NewAIService(FALSE, FALSE, TRUE, FALSE)
    /\ gsr = GsrInit
    /\ \E evs \in SeqsUpTo(EffectEvents, MaxEffectEvents) :
          ai_result = [reply |-> Some(Reply("You wait.", Some(evs), None, None)), error |-> None]
    /\ pc = "effects_ready"
    /\ caller = "handle_player_command"
    /\ game_state_id = 1
    /\ command = "look"
    /\ \E p \in EffectPlayers :
          /\ db = <<[NewGameState EXCEPT !.player = p]>>
          /\ mem = Some(db[1])
          /\ pre = db
    /\ flushed = FALSE
    /\ ret = NoReturn

\* One call of _apply_ai_effects(player, ai_response).
EffApply ==
    /\ pc = "effects_ready"
    /\ LET eff == ApplyAIEffects(Val(mem).player, Val(ai_result.reply))
       IN /\ mem' = Some([Val(mem) EXCEPT !.player = eff.p])
          /\ flushed' = eff.flushed
          /\ pc' = IF eff.raised THEN "effects_raised" ELSE "effects_done"
    /\ UNCHANGED <<ai, gsr, ai_result, caller, game_state_id, command, db, pre, ret>>

EffNext == EffApply

EffSpec == EffInit /\ [][EffNext]_vars

\* ------------------------------- cleaning and parsing a raw text on its own

\* A raw text is a sequence of characters; a run of characters that holds
\* no backtick, newline, brace or bracket and neither starts nor ends with
\* whitespace may be written as one element.

\* Most whitespace characters before and after a raw text.
MaxPad == 1

\* The grave accent character, written as a word because a string of this
\* language cannot hold it.
Backtick == "grave"
Fence == <<Backtick, Backtick, Backtick>>
JsonWord == <<"j", "s", "o", "n">>

\* str.startswith, str.endswith, str.find, str.rfind (0 for Python's -1).
StartsWith(s, p) == Len(s) >= Len(p) /\ SubSeq(s, 1, Len(p)) = p
EndsWith(s, p) == Len(s) >= Len(p) /\ SubSeq(s, Len(s) - Len(p) + 1, Len(s)) = p
Find(s, c) ==
    IF \E i \in 1..Len(s) : s[i] = c
    THEN CHOOSE i \in 1..Len(s) : s[i] = c /\ \A j \in 1..(i - 1) : s[j] # c
    ELSE 0
RFind(s, c) ==
    IF \E i \in 1..Len(s) : s[i] = c
    THEN CHOOSE i \in 1..Len(s) : s[i] = c /\ \A j \in (i + 1)..Len(s) : s[j] # c
    ELSE 0

\* JSON documents a provider may send.
DescWait == "\"action_result_description\": \"You wait.\""
ObjWait == <<"{", DescWait, "}">>
ObjWaitSpread == <<"{", "\n", " ", DescWait, "\n", "}">>
ObjWaitExtra == <<"{", DescWait, ", \"mood\":", "{", "}", "}">>
ObjNoDesc == <<"{", "\"sound_effect\": \"drip\"", "}">>
ObjEmptyDesc == <<"{", "\"action_result_description\": \"\"", "}">>
ArrEmpty == <<"[", "]">>
JsonObjects == {ObjWait, ObjWaitSpread, ObjWaitExtra, ObjNoDesc, ObjEmptyDesc}
JsonDocs == JsonObjects \cup {ArrEmpty}

\* json.loads: a document with whitespace around it parses, to a dict with
\* or without action_result_description or to a list; any other text
\* raises JSONDecodeError.
JsonLoads(text) ==
    LET t == Strip(text)
    IN IF t \notin JsonDocs
       THEN [ok |-> FALSE, is_object |-> FALSE, description |-> None]
       ELSE [ok |-> TRUE,
             is_object |-> t \in JsonObjects,
             description |-> IF t \in {ObjWait, ObjWaitSpread, ObjWaitExtra} THEN Some("You wait.")
                             ELSE IF t = ObjEmptyDesc THEN Some("")
                             ELSE None]

\* AIResponse.model_validate: a dict with the required description
\* validates, unknown keys ignored and absent optional fields defaulted.
ModelValidate(value) ==
    IF value.is_object /\ IsSome(value.description)
    THEN Some(Reply(Val(value.description), Some(<<>>), None, None))
    ELSE None

\* Variant of _clean_raw_response that removes the opening fence line
\* only and returns whatever starts with a brace.
CleanRawResponseOpeningOnly(raw_response_str) ==
    LET stripped == Strip(raw_response_str)
        opened == IF ~StartsWith(stripped, Fence) THEN stripped
                  ELSE IF Find(stripped, "\n") # 0
                  THEN SubSeq(stripped, Find(stripped, "\n") + 1, Len(stripped))
                  ELSE SubSeq(stripped, 4, Len(stripped))
    IN IF StartsWith(LStrip(opened), <<"{">>) THEN Some(LStrip(opened)) ELSE None

\* _clean_raw_response.
CleanRawResponse(raw_response_str) ==
    LET stripped == Strip(raw_response_str)
        fenced == StartsWith(stripped, Fence)
        opened == IF ~fenced THEN stripped
                  ELSE IF Find(stripped, "\n") # 0
                  THEN SubSeq(stripped, Find(stripped, "\n") + 1, Len(stripped))
                  ELSE SubSeq(stripped, 4, Len(stripped))
        cleaned == IF fenced /\ EndsWith(opened, Fence)
                   THEN Strip(SubSeq(opened, 1, Len(opened) - 3))
                   ELSE opened
        json_start == Find(cleaned, "{")
        json_end == RFind(cleaned, "}")
        extracted == SubSeq(cleaned, json_start, json_end)
    IN IF StartsWith(cleaned, <<"{">>) /\ EndsWith(cleaned, <<"}">>) THEN Some(cleaned)
       ELSE IF StartsWith(cleaned, <<"[">>) /\ EndsWith(cleaned, <<"]">>) THEN Some(cleaned)
       ELSE IF json_start # 0 /\ json_end # 0 /\ json_start < json_end
       THEN (IF JsonLoads(extracted).ok THEN Some(extracted) ELSE None)
       ELSE None

\* The parse block of generate_structured_response on a raw text.
ParseText(raw_response_str) ==
    LET failed == [reply |-> None, error |-> Some(<<"AI response JSON decode failed">>)]
        cleaned == CleanRawResponse(raw_response_str)
    IN IF IsNone(cleaned) THEN failed
       ELSE IF ~JsonLoads(Val(cleaned)).ok THEN failed
       ELSE IF IsNone(ModelValidate(JsonLoads(Val(cleaned)))) THEN failed
       ELSE [reply |-> ModelValidate(JsonLoads(Val(cleaned))), error |-> None]

\* Raw texts a provider may return: a document behind a fence line and
\* before a closing fence, a fenced document on one line, a bare document,
\* a document inside prose, and prose alone.
Pads == SeqsUpTo({" ", "\n"}, MaxPad)
FenceLines == {Fence, Fence \o JsonWord, Fence \o <<" ">>, Fence \o JsonWord \o <<" ">>}
Gaps == {<<>>, <<" ">>, <<"\n">>}
Prose == <<"Here is the result:">>
FencedTexts ==
    {lead \o open \o <<"\n">> \o before \o doc \o after \o close \o trail :
        lead \in Pads, open \in FenceLines, before \in Gaps, doc \in JsonDocs,
        after \in Gaps, close \in {Fence, <<>>}, trail \in Pads}
OneLineTexts ==
    {lead \o open \o doc \o Fence \o trail :
        lead \in Pads, open \in {Fence, Fence \o JsonWord}, doc \in JsonDocs, trail \in Pads}
BareTexts ==
    {lead \o before \o doc \o after \o trail :
        lead \in Pads, before \in {<<>>, Prose \o <<" ">>}, doc \in JsonDocs \cup {<<>>},
        after \in {<<>>, <<" ">> \o Prose, <<" ">> \o ObjNoDesc}, trail \in Pads}
RawTexts == FencedTexts \cup OneLineTexts \cup BareTexts

\* A service that holds a raw text of a provider and has yet to parse it.
CleanInit ==
    /\ ai = NewAIService(FALSE, FALSE, TRUE, FALSE)
    /\ \E raw \in RawTexts : gsr = [GsrInit EXCEPT !.raw_response_str = Some(raw)]
    /\ ai_result = NoResult
    /\ pc = "gsr_parse"
    /\ caller = "none"
    /\ game_state_id = 0
    /\ command = ""
    /\ db = <<>>
    /\ mem = None
    /\ flushed = FALSE
    /\ pre = <<>>
    /\ ret = NoReturn

\* generate_structured_response from the parse block to its return.
CleanParse ==
    /\ pc = "gsr_parse"
    /\ ai_result' = ParseText(Val(gsr.raw_response_str))
    /\ pc' = "gsr_returned"
    /\ UNCHANGED <<ai, gsr, caller, game_state_id, command, db, mem, flushed, pre, ret>>

CleanNext == CleanParse

CleanSpec == CleanInit /\ [][CleanNext]_vars

\* ------------------------------------ formatting a system prompt on its own

\* A template is a sequence of characters, a name or word written as one
\* element.  A context maps names to values; a value has a type and a text.

\* Longest template.
MaxTemplate == 5

TemplateChars == {"{", "}", ":", "d", "room", "hp"}
Templates == SeqsUpTo(TemplateChars, MaxTemplate)
StrValue(text) == [type |-> "str", text |-> text]
IntValue(text) == [type |-> "int", text |-> text]
KnownValues == (<<"room">> :> StrValue(<<"Crypt">>)) @@ (<<"hp">> :> IntValue(<<"7">>))
Contexts == {[k \in keys |-> KnownValues[k]] : keys \in SUBSET DOMAIN KnownValues}

\* Number of characters of an element of a text.
CharLen(c) ==
    CASE c = "Crypt" -> 5
      [] c = "room" -> 4
      [] c = "hp" -> 2
      [] c = "_unavailable>" -> 13
      [] OTHER -> 1
RECURSIVE TextLen(_)
TextLen(text) == IF text = <<>> THEN 0 ELSE CharLen(Head(text)) + TextLen(Tail(text))

\* The index after the brace that closes a replacement field, scanning
\* from index j at nesting depth, or 0 when the text ends first.
RECURSIVE FieldEnd(_, _, _)
FieldEnd(t, j, depth) ==
    IF depth = 0 THEN j
    ELSE IF j > Len(t) THEN 0
    ELSE FieldEnd(t, j + 1, IF t[j] = "{" THEN depth + 1 ELSE IF t[j] = "}" THEN depth - 1 ELSE depth)

Literal(c) == [kind |-> "literal", text |-> <<c>>, name |-> <<>>, spec |-> <<>>]
\* The part for the text between the braces of a field: the name runs to
\* the first colon, the format spec is what follows it.
FieldPart(body) ==
    LET colon == Find(body, ":")
        name == IF colon = 0 THEN body ELSE SubSeq(body, 1, colon - 1)
        spec == IF colon = 0 THEN <<>> ELSE SubSeq(body, colon + 1, Len(body))
    IN [kind |-> IF Find(name, "{") # 0 \/ Find(name, "}") # 0 THEN "error" ELSE "field",
        text |-> <<>>, name |-> name, spec |-> spec]

\* The parts of a format string from index i on: literal characters and
\* replacement fields; a doubled brace is a literal brace at the top level
\* (escapes) and not inside a format spec.  A part of kind "error" stands
\* for the ValueError of a format string that cannot be parsed.
RECURSIVE FormatParts(_, _, _)
FormatParts(t, i, escapes) ==
    IF i > Len(t) THEN <<>>
    ELSE IF escapes /\ i < Len(t) /\ t[i] \in {"{", "}"} /\ t[i + 1] = t[i]
    THEN <<Literal(t[i])>> \o FormatParts(t, i + 2, escapes)
    ELSE IF t[i] = "}" THEN <<[Literal(t[i]) EXCEPT !.kind = "error"]>>
    ELSE IF t[i] = "{"
    THEN (IF FieldEnd(t, i + 1, 1) = 0 THEN <<[Literal(t[i]) EXCEPT !.kind = "error"]>>
          ELSE <<FieldPart(SubSeq(t, i + 1, FieldEnd(t, i + 1, 1) - 2))>>
                  \o FormatParts(t, FieldEnd(t, i + 1, 1), escapes))
    ELSE <<Literal(t[i])>> \o FormatParts(t, i + 1, escapes)

ParseError(parts) == \E i \in 1..Len(parts) : parts[i].kind = "error"

\* format(value, spec): a spec of digits pads to that width, text on the
\* left and integers on the right; a final "d" wants an integer; any other
\* spec raises ValueError (None).
FormatValue(value, spec) ==
    LET digits == IF \E k \in 1..Len(spec) : spec[k] # "7"
                  THEN (CHOOSE k \in 1..Len(spec) : spec[k] # "7" /\ \A j \in 1..(k - 1) : spec[j] = "7") - 1
                  ELSE Len(spec)
        rest == SubSeq(spec, digits + 1, Len(spec))
        width == IF digits = 0 THEN 0 ELSE DigitsValue(SubSeq(spec, 1, digits))
        pad == [k \in 1..Max(0, width - TextLen(value.text)) |-> " "]
    IN IF rest # <<>> /\ ~(rest = <<"d">> /\ value.type = "int") THEN None
       ELSE IF value.type = "int" THEN Some(pad \o value.text)
       ELSE Some(value.text \o pad)

\* str.format over the parts with keyword arguments kwargs: the text, or
\* None when a field is positional (IndexError), names no argument
\* (KeyError), or has a spec its value rejects.  nested says the parts are
\* those of a format spec, where a field may not nest a further one.
RECURSIVE FormatWith(_, _, _)
FormatWith(parts, kwargs, nested) ==
    IF parts = <<>> THEN Some(<<>>)
    ELSE LET part == Head(parts)
             spec == IF Find(part.spec, "{") = 0 /\ Find(part.spec, "}") = 0 THEN Some(part.spec)
                     ELSE IF nested \/ ParseError(FormatParts(part.spec, 1, FALSE)) THEN None
                     ELSE FormatWith(FormatParts(part.spec, 1, FALSE), kwargs, TRUE)
             first == IF part.kind = "literal" THEN Some(part.text)
                      ELSE IF part.name = <<>> \/ part.name \notin DOMAIN kwargs \/ IsNone(spec) THEN None
                      ELSE FormatValue(kwargs[part.name], Val(spec))
             others == FormatWith(Tail(parts), kwargs, nested)
         IN IF IsNone(first) \/ IsNone(others) THEN None ELSE Some(Val(first) \o Val(others))

\* The text that stands for a key the context lacks.
Unavailable(key) == StrValue(<<"<">> \o key \o <<"_unavailable>">>)

\* The try block of _format_system_prompt: the formatted text, or None
\* when any statement raises.
TryFormat(system_template, context) ==
    LET parts == FormatParts(system_template, 1, TRUE)
        template_keys == {parts[i].name : i \in {j \in 1..Len(parts) : parts[j].name # <<>>}}
        filtered_context == [key \in template_keys |->
                                IF key \in DOMAIN context THEN context[key] ELSE Unavailable(key)]
    IN IF ParseError(parts) THEN None ELSE FormatWith(parts, filtered_context, FALSE)

\* _format_system_prompt.
FormatSystemPrompt(system_template, context) ==
    IF IsNone(TryFormat(system_template, context)) THEN system_template
    ELSE Val(TryFormat(system_template, context))

\* generate_structured_response about to format its system prompt.
FmtInit ==
    /\ ai = NewAIService(FALSE, FALSE, TRUE, FALSE)
    /\ \E t \in Templates, c \in Contexts :
          gsr = [system_prompt_template |-> t, context |-> c, system_prompt |-> None]
    /\ ai_result = NoResult
    /\ pc = "gsr_format"
    /\ caller = "none"
    /\ game_state_id = 0
    /\ command = ""
    /\ db = <<>>
    /\ mem = None
    /\ flushed = FALSE
    /\ pre = <<>>
    /\ ret = NoReturn

FmtFormat ==
    /\ pc = "gsr_format"
    /\ gsr' = [gsr EXCEPT !.system_prompt = Some(FormatSystemPrompt(gsr.system_prompt_template, gsr.context))]
    /\ pc' = "gsr_formatted"
    /\ UNCHANGED <<ai, ai_result, caller, game_state_id, command, db, mem, flushed, pre, ret>>

FmtNext == FmtFormat

FmtSpec == FmtInit /\ [][FmtNext]_vars

\* ------------------------------- two handle_player_command calls on one session

\* Each call runs in a database session of its own.  pc, mem, pre, command,
\* ai_result and ret hold one value per call; db is the one committed row.

\* Variant of UnitOfWork that numbers the new chat messages after the
\* committed history, whatever numbers the call gave them.
UnitOfWorkRenumbers(row, loaded, changed) ==
    LET added == SubSeq(changed.chat_messages, Len(loaded.chat_messages) + 1,
                        Len(changed.chat_messages))
    IN [ok |-> TRUE,
        row |-> [changed EXCEPT !.chat_messages =
                    row.chat_messages \o
                    [i \in 1..Len(added) |->
                        [added[i] EXCEPT !.turn_number = Len(row.chat_messages) + i - 1]],
                 !.player.inventory_items = LiveEntries(@)]]

\* What the commit of a call makes of the committed row: the call loaded
\* the session as `loaded` and changed it to `changed`.  The chat messages
\* it appended are inserted with the turn numbers it gave them; a column
\* it changed is updated to its value, the others are left; an inventory
\* entry it created is inserted (a row with this key already there:
\* IntegrityError), one whose quantity it changed is updated (no such row
\* any more: StaleDataError), one it deleted is deleted.  ok is FALSE when
\* the flush raises; the transaction is then rolled back.
UnitOfWork(row, loaded, changed) ==
    LET was == loaded.player.inventory_items
        now == changed.player.inventory_items
        held(inv, id) == \E j \in 1..Len(inv) : inv[j].item_id = id
        inserted == SelectSeq(SubSeq(now, Len(was) + 1, Len(now)), LAMBDA e : ~e.deleted)
        updated == {i \in 1..Len(was) : ~now[i].deleted /\ now[i].quantity # was[i].quantity}
        removed == {now[i].item_id : i \in {j \in 1..Len(was) : now[j].deleted}}
        quantity(e) == IF \E i \in updated : now[i].item_id = e.item_id
                       THEN now[CHOOSE i \in updated : now[i].item_id = e.item_id].quantity
                       ELSE e.quantity
        kept == SelectSeq(row.player.inventory_items, LAMBDA e : e.item_id \notin removed)
        column(f) == IF changed.player[f] # loaded.player[f] THEN changed.player[f]
                     ELSE row.player[f]
    IN [ok |-> /\ \A i \in 1..Len(inserted) :
                      ~held(row.player.inventory_items, inserted[i].item_id)
               /\ \A i \in updated : held(row.player.inventory_items, now[i].item_id),
        row |-> [row EXCEPT
                    !.chat_messages = @ \o SubSeq(changed.chat_messages,
                                                  Len(loaded.chat_messages) + 1,
                                                  Len(changed.chat_messages)),
                    !.player.health = column("health"),
                    !.player.gold = column("gold"),
                    !.player.experience = column("experience"),
                    !.player.inventory_items =
                        [i \in 1..Len(kept) |-> [kept[i] EXCEPT !.quantity = quantity(kept[i])]]
                        \o inserted]]

\* What the AI service returns to a call: a stationary reply with up to
\* MaxEvents events, or an error.
RaceResults ==
    {[reply |-> Some(Reply("You wait.", Some(evs), None, None)), error |-> None] :
        evs \in SeqsUpTo({EvLoot, EvHurt}, MaxEvents)}
    \cup {[reply |-> None, error |-> Some(<<"Both AI services failed">>)]}

RaceInit ==
    /\ ai = NewAIService(FALSE, FALSE, TRUE, FALSE)
    /\ gsr = GsrInit
    /\ ai_result = <<NoResult, NoResult>>
    /\ pc = <<"idle", "idle">>
    /\ caller = "handle_player_command"
    /\ game_state_id = 1
    /\ command = <<"look", "look">>
    /\ \E inv \in {<<>>, <<[item_id |-> 1, quantity |-> 1, deleted |-> FALSE]>>} :
          db = <<[SeedSession EXCEPT !.player.inventory_items = inv]>>
    /\ mem = <<None, None>>
    /\ flushed = FALSE
    /\ pre = <<None, None>>
    /\ ret = <<NoReturn, NoReturn>>

\* handle_player_command of call k, steps 1-3: load the committed session
\* and call the AI service.
RaceLoad(k) ==
    /\ pc[k] = "idle"
    /\ pc' = [pc EXCEPT ![k] = "hpc_after_ai"]
    /\ mem' = [mem EXCEPT ![k] = Some(db[game_state_id])]
    /\ pre' = [pre EXCEPT ![k] = Some(db[game_state_id])]
    /\ UNCHANGED <<ai, gsr, ai_result, caller, game_state_id, command, db, flushed, ret>>

\* handle_player_command of call k, steps 4-9, once the AI service has
\* returned: history, effects, room decision and commit, run while the
\* other call is in its AI call or outside the method.
RaceFinish(k) ==
    /\ pc[k] = "hpc_after_ai"
    /\ \E result \in RaceResults :
          LET current_turn == Len(GetChatHistoryForAI(Val(pre[k])))
              gs1 == AddChatMessage(Val(mem[k]), "user", <<"text", command[k]>>, current_turn)
              gs2 == AddChatMessage(gs1, "assistant", ModelDumpJson(Val(result.reply)),
                                    current_turn + 1)
              eff == ApplyAIEffects(gs2.player, Val(result.reply))
              gs3 == [gs2 EXCEPT !.player = eff.p]
              uow == UnitOfWork(db[game_state_id], Val(pre[k]), gs3)
          IN /\ ai_result' = [ai_result EXCEPT ![k] = result]
             /\ IF IsSome(result.error) \/ IsNone(result.reply)
                THEN /\ ret' = [ret EXCEPT ![k] = ReturnOnAIFailure(Val(mem[k]), result)]
                     /\ db' = db
                ELSE IF eff.raised \/ ~uow.ok
                THEN /\ ret' = [ret EXCEPT ![k] =
                                   [op |-> "handle_player_command", session |-> None,
                                    reply |-> None,
                                    error |-> Some(<<"An unexpected server error occurred">>)]]
                     /\ db' = db
                ELSE /\ ret' = [ret EXCEPT ![k] =
                                   [op |-> "handle_player_command", session |-> Some(Persisted(gs3)),
                                    reply |-> result.reply, error |-> None]]
                     /\ db' = [db EXCEPT ![game_state_id] = uow.row]
    /\ pc' = [pc EXCEPT ![k] = "returned"]
    /\ mem' = [mem EXCEPT ![k] = None]
    /\ UNCHANGED <<ai, gsr, caller, game_state_id, command, flushed, pre>>

RaceNext == \E k \in {1, 2} : RaceLoad(k) \/ RaceFinish(k)

RaceSpec == RaceInit /\ [][RaceNext]_vars

\* ------------------------------------------------------------ properties

\* The session handle_player_command loaded, as committed when the call began.
LoadedSession == pre[game_state_id]

\* The events of the reply in hand.
ReplyEvents == Val(Val(ai_result.reply).triggered_events)

\* Whether the try block of an effects block gets as far as the given
\* stat: a stat before it that fails to parse ends the block.
StatReached(eff, stat) ==
    CASE stat = "health" -> TRUE
      [] stat = "gold" -> IsNone(eff.health) \/ ParseInt(Val(eff.health)).ok
      [] stat = "xp" -> /\ IsNone(eff.health) \/ ParseInt(Val(eff.health)).ok
                        /\ IsNone(eff.gold) \/ ParseInt(Val(eff.gold)).ok

\* The integer deltas of one stat that a list of events applies, in order.
RECURSIVE AppliedDeltas(_, _)
AppliedDeltas(events, stat) ==
    IF events = <<>> THEN <<>>
    ELSE LET e == Head(events)
             here == IF /\ IsSome(e.effects)
                        /\ StatReached(Val(e.effects), stat)
                        /\ IsSome(Val(e.effects)[stat])
                        /\ ParseInt(Val(Val(e.effects)[stat])).ok
                     THEN <<ParseInt(Val(Val(e.effects)[stat])).val>>
                     ELSE <<>>
         IN here \o AppliedDeltas(Tail(events), stat)

\* h_i = max(0, min(max_health, h_(i-1) + d_i)), from the left.
RECURSIVE FoldHealth(_, _, _)
FoldHealth(h, max_health, deltas) ==
    IF deltas = <<>> THEN h
    ELSE FoldHealth(Max(0, Min(max_health, h + Head(deltas))), max_health, Tail(deltas))

\* g_i = max(0, g_(i-1) + d_i), from the left.
RECURSIVE FoldGold(_, _)
FoldGold(g, deltas) ==
    IF deltas = <<>> THEN g ELSE FoldGold(Max(0, g + Head(deltas)), Tail(deltas))

\* The sum of the positive members of a list of deltas.
RECURSIVE SumPositive(_)
SumPositive(deltas) ==
    IF deltas = <<>> THEN 0
    ELSE (IF Head(deltas) > 0 THEN Head(deltas) ELSE 0) + SumPositive(Tail(deltas))

HealthWithinBounds(gs) == 0 <= gs.player.health /\ gs.player.health <= gs.player.max_health

\* C1: in every reachable state the player's health is an integer between
\* 0 and max_health inclusive, in every committed session, in the session
\* being worked on and in the session a call returned.
C1_HealthWithinBounds ==
    /\ \A i \in 1..Len(db) : HealthWithinBounds(db[i])
    /\ IsSome(mem) => HealthWithinBounds(Val(mem))
    /\ IsSome(ret.session) => HealthWithinBounds(Val(ret.session))

\* C1 witness: effects have just been applied whose health deltas would
\* have taken the player below zero, and the health in memory is 0.
C1_Witness ==
    /\ pc = "hpc_room"
    /\ LoadedSession.player.health = 30
    /\ AppliedDeltas(ReplyEvents, "health") = <<-70>>
    /\ Val(mem).player.health = 0

\* C2: after _apply_ai_effects has run over events carrying the health
\* deltas d1..dn, the player's health is the left fold
\* h_i = max(0, min(max_health, h_(i-1) + d_i)) from the health before the
\* call, the clamp applied after every event in order; in particular a
\* player at 50 of 100 receiving "-70" ends at 0.
C2_HealthIsLeftFold ==
    /\ pc = "effects_done" =>
          Val(mem).player.health =
              FoldHealth(LoadedSession.player.health, LoadedSession.player.max_health,
                         AppliedDeltas(ReplyEvents, "health"))
    /\ (/\ pc = "effects_done"
        /\ LoadedSession.player.health = 50
        /\ LoadedSession.player.max_health = 100
        /\ AppliedDeltas(ReplyEvents, "health") = <<-70>>) => Val(mem).player.health = 0

\* C2 witness: from full health the deltas +30 then -70 have been applied;
\* clamping after each event gives 30, where clamping the sum would give 60.
C2_Witness ==
    /\ pc = "effects_done"
    /\ LoadedSession.player.health = 100
    /\ AppliedDeltas(ReplyEvents, "health") = <<30, -70>>
    /\ Val(mem).player.health = 30

\* C3: applying a gold delta d to gold g yields max(0, g + d), so the gold
\* after the effects of a reply is the fold of that step over the applied
\* deltas, and gold is never negative in any session of a reachable state.
C3_GoldClampedAtZero ==
    /\ \A i \in 1..Len(db) : db[i].player.gold >= 0
    /\ IsSome(mem) => Val(mem).player.gold >= 0
    /\ IsSome(ret.session) => Val(ret.session).player.gold >= 0
    /\ pc = "hpc_room" =>
          Val(mem).player.gold =
              FoldGold(LoadedSession.player.gold, AppliedDeltas(ReplyEvents, "gold"))

\* C3 witness: a player holding 10 gold has been charged 20 and holds 0.
C3_Witness ==
    /\ pc = "hpc_room"
    /\ LoadedSession.player.gold = 10
    /\ AppliedDeltas(ReplyEvents, "gold") = <<-20>>
    /\ Val(mem).player.gold = 0

\* C4: experience never decreases: no step lowers the experience of a
\* committed session, and applying the effects of a reply adds exactly the
\* positive experience deltas, a negative or zero delta changing nothing.
C4_ExperienceNeverDecreases ==
    [][/\ Len(db') >= Len(db)
       /\ \A i \in 1..Len(db) : db'[i].player.experience >= db[i].player.experience
       /\ (pc = "hpc_effects" /\ pc' = "hpc_room") =>
             Val(mem').player.experience =
                 Val(mem).player.experience + SumPositive(AppliedDeltas(ReplyEvents, "xp"))]_vars

\* C4 witness: a player with 10 experience has been dealt the delta -5 and
\* still has 10.
C4_Witness ==
    /\ pc = "hpc_room"
    /\ LoadedSession.player.experience = 10
    /\ AppliedDeltas(ReplyEvents, "xp") = <<-5>>
    /\ Val(mem).player.experience = 10

\* The session of the requested id as committed when the call began, if any.
SessionBefore ==
    IF game_state_id \in 1..Len(pre) THEN Some(pre[game_state_id]) ELSE None

\* handle_player_command has returned, and returned an error.
HPCReturnedError == pc = "idle" /\ ret.op = "handle_player_command" /\ IsSome(ret.error)

AIFailureText == "AI interaction failed: "
UnexpectedErrorText == "An unexpected server error occurred"

C6_AIFailureChangesNothing ==
    [][(pc = "hpc_after_ai" /\ (IsNone(ai_result.reply) \/ IsSome(ai_result.error))) =>
          /\ pc' = "idle"
          /\ mem = SessionBefore
          /\ ret'.session = SessionBefore
          /\ IsSome(ret'.error)
          /\ IsNone(ret'.reply)
          /\ ~flushed'
          /\ db' = db
          /\ db = pre]_vars

\* C6 witness: the AI call failed for a session that earlier turns had
\* already changed, and the call returned that session as committed.
C6_Witness ==
    /\ HPCReturnedError
    /\ Head(Val(ret.error)) = AIFailureText
    /\ IsNone(ai_result.reply)
    /\ Len(LoadedSession.chat_messages) > 1
    /\ ret.session = Some(LoadedSession)
    /\ db = pre

\* C7: a failure after the session was changed in memory (an exception in
\* the effects, in the room update or in the commit) never yields a success
\* tuple: the call rolls back, so the committed rows are those from before
\* the call, flushed changes included, and it returns an error with no
\* session and no reply; a success tuple means the changes were committed.
C7_FailureRollsBack ==
    [][(/\ caller = "handle_player_command"
        /\ pc \in {"hpc_effects", "hpc_room", "hpc_commit"}
        /\ pc' = "idle") =>
          IF IsNone(ret'.error)
          THEN /\ pc = "hpc_commit"
               /\ ret'.session = Some(Persisted(Val(mem)))
               /\ db'[game_state_id] = Val(ret'.session)
          ELSE /\ db' = pre
               /\ ~flushed'
               /\ IsNone(mem')
               /\ IsNone(ret'.session)
               /\ IsNone(ret'.reply)]_vars

\* C7 witness: a reply that stays in the room and adds an item was applied
\* and flushed, the commit failed, and the committed rows are unchanged.
C7_Witness ==
    /\ HPCReturnedError
    /\ Head(Val(ret.error)) = UnexpectedErrorText
    /\ IsSome(ai_result.reply)
    /\ IsNone(Val(ai_result.reply).room_description)
    /\ Val(ai_result.reply).triggered_events = Some(<<EvLoot>>)
    /\ db = pre
    /\ Len(LoadedSession.player.inventory_items) = 0

\* The provider queries the running generate_structured_response call
\* has issued are complete once the fallbacks are over.
QueriesComplete == pc = "gsr_parse" /\ Len(gsr.queries) >= 1
FirstQuery == gsr.queries[1]
ConnectionFailures == {"timeout", "unreachable"}
OneRetryAgainst(provider) == Len(gsr.queries) = 2 /\ gsr.queries[2].provider = provider
NoRetry == Len(gsr.queries) = 1

\* Local Ollama has a URL and is not known to be unavailable.
LocalUsable == ai.local_url /\ (ai.local_checked => ai.local_available)

C9_AtMostTwoQueries ==
    /\ Len(gsr.queries) <= 2
    /\ \A i, j \in 1..Len(gsr.queries) :
          i # j => gsr.queries[i].provider # gsr.queries[j].provider
    /\ (pc = "gsr_parse" /\ Len(gsr.queries) = 2 /\ gsr.queries[2].outcome # "ok") =>
          IsNone(gsr.raw_response_str) /\ IsSome(gsr.error_message)

\* C9 witness: local Ollama failed, the Gemini fallback was refused with
\* status 403, and the call is about to return with no response.
C9_Witness ==
    /\ pc = "gsr_parse"
    /\ gsr.queries = <<[provider |-> "local", outcome |-> "unreachable"],
                       [provider |-> "cloud", outcome |-> "status403"]>>
    /\ IsNone(gsr.raw_response_str)

AnsweredByLocalAfter403 ==
    gsr.queries = <<[provider |-> "cloud", outcome |-> "status403"],
                    [provider |-> "local", outcome |-> "ok"]>>

\* generate_structured_response is not running.
GenerateReturned == pc \notin {"gsr_primary", "gsr_fallback", "gsr_parse"}

DecodeFailedText == "AI response JSON decode failed"

C12_NoRetryAfterRawText ==
    /\ \A i \in 1..Len(gsr.queries) :
          gsr.queries[i].outcome = "ok" => i = Len(gsr.queries)
    /\ (pc \in {"sng_after_ai", "hpc_after_ai"} /\ IsSome(gsr.raw_response_str)) =>
          /\ gsr.queries[Len(gsr.queries)].outcome = "ok"
          /\ IsNone(ai_result.reply) => ai_result.error = Some(<<DecodeFailedText>>)

\* C12 witness: local Ollama returned text that did not parse, a Gemini
\* client is configured, and the call has returned its error after the one
\* query.
C12_Witness ==
    /\ pc = "hpc_after_ai"
    /\ ai.gemini_client
    /\ gsr.queries = <<[provider |-> "local", outcome |-> "ok"]>>
    /\ IsNone(ai_result.reply)
    /\ ai_result.error = Some(<<DecodeFailedText>>)

\* The description of the failure a logged query ended in.
FailureText(q) ==
    IF q.provider = "local" THEN QueryLocal(ai, q.outcome).exc.text
    ELSE QueryGemini(ai, q.outcome).exc.text

\* An error message, kept as the list of its parts, has the given part.
Mentions(message, part) == \E i \in 1..Len(message) : message[i] = part

\* C13: when both providers were attempted and both failed, the error
\* generate_structured_response returns contains the failure description of
\* the first attempt and that of the fallback attempt; when an attempt
\* succeeds and its text parses, the error captured earlier is cleared and
\* the returned error is null.
C13_ErrorTellsOfBothAttempts ==
    /\ (/\ pc \notin {"gsr_primary", "gsr_fallback"}
        /\ Len(gsr.queries) = 2
        /\ gsr.queries[1].outcome # "ok" /\ gsr.queries[2].outcome # "ok") =>
          /\ IsNone(gsr.raw_response_str)
          /\ IsSome(gsr.error_message)
          /\ Mentions(Val(gsr.error_message), FailureText(gsr.queries[1]))
          /\ Mentions(Val(gsr.error_message), FailureText(gsr.queries[2]))
          /\ GenerateReturned =>
                ai_result = [reply |-> None, error |-> gsr.error_message]
    /\ (GenerateReturned /\ IsSome(ai_result.reply)) =>
          IsNone(ai_result.error) /\ IsNone(gsr.error_message)

\* C13 witness: local Ollama timed out, Gemini answered status 500, and
\* the call has returned an error that tells of both.
C13_Witness ==
    /\ pc = "hpc_after_ai"
    /\ gsr.queries = <<[provider |-> "local", outcome |-> "timeout"],
                       [provider |-> "cloud", outcome |-> "status500"]>>
    /\ IsNone(ai_result.reply)
    /\ Mentions(Val(ai_result.error), "Local LLM request timed out")
    /\ Mentions(Val(ai_result.error), "Gemini API error (Status 500)")

\* Local is the configured preference, a local URL is set and the
\* memoized probe reports local available.
LocalComesFirst ==
    ai.use_local_preference /\ ai.local_url /\ ai.local_checked /\ ai.local_available

\* C14: the first provider generate_structured_response attempts is local
\* exactly when local is the configured preference, a local URL is set and
\* the memoized probe reports available; in every other case the primary
\* is Gemini, which is queried first whenever a client is configured.
C14_LocalFirstIffPreferredAndAvailable ==
    pc = "gsr_fallback" =>
        IF LocalComesFirst
        THEN /\ gsr.primary_service = "Ollama"
             /\ Len(gsr.queries) = 1 /\ FirstQuery.provider = "local"
        ELSE /\ gsr.primary_service = "Gemini"
             /\ IF ai.gemini_client
                THEN Len(gsr.queries) = 1 /\ FirstQuery.provider = "cloud"
                ELSE gsr.queries = <<>>

\* C14 witness: local is preferred and has a URL, the memoized probe says
\* unavailable, and the first query has gone to Gemini.
C14_Witness ==
    /\ pc = "gsr_fallback"
    /\ ai.use_local_preference /\ ai.local_url
    /\ ai.local_checked /\ ~ai.local_available
    /\ gsr.primary_service = "Gemini"
    /\ Len(gsr.queries) = 1 /\ FirstQuery.provider = "cloud"

\* C15: for one AIService instance _check_local_ollama probes the network
\* at most once: a probe is made only while the memo is unset and sets it,
\* and once the memo is set every later call (provider selection, the 403
\* fallback, in any generate call) uses the memoized availability with no
\* probe and leaves the memo as it is, until switch_to_local resets it.
C15_ProbeMemoized ==
    [][LET probedNow == pc \in {"gsr_primary", "gsr_fallback"} /\ gsr'.probes > gsr.probes
           switchedToLocal == pc = "idle" /\ pc' = "idle" /\ ai'.use_local_preference
       IN /\ probedNow => ~ai.local_checked /\ ai'.local_checked
                          /\ gsr'.probes = gsr.probes + 1
          /\ (ai.local_checked /\ ~switchedToLocal) =>
                /\ ai'.local_checked
                /\ ai'.local_available = ai.local_available
                /\ ~probedNow
          /\ (ai.local_checked /\ pc = "gsr_primary") =>
                (gsr'.primary_service = "Ollama" <=>
                    ai.use_local_preference /\ ai.local_url /\ ai.local_available)]_vars

\* C15 witness: Gemini answered status 403, local Ollama was queried on
\* the strength of a memo set before this call, and no probe was made.
C15_Witness ==
    /\ pc = "gsr_parse"
    /\ Len(gsr.queries) = 2
    /\ FirstQuery = [provider |-> "cloud", outcome |-> "status403"]
    /\ gsr.queries[2].provider = "local"
    /\ gsr.probes = 0
    /\ ai.local_checked /\ ai.local_available

\* C16: a reply whose JSON lacks action_result_description, or carries it
\* as an empty string, is rejected by validation: every reply that
\* generate_structured_response returns has a non-empty description, and
\* handle_player_command commits a change only for such a reply.
C16_EmptyDescriptionRejected ==
    /\ (GenerateReturned /\ IsSome(ai_result.reply)) =>
          Val(ai_result.reply).action_result_description # ""
    /\ (pc = "idle" /\ ret.op = "handle_player_command" /\ db # pre) =>
          IsSome(ret.reply) /\ Val(ret.reply).action_result_description # ""

\* The raw text held by the service.
RawText == Val(gsr.raw_response_str)

\* The text is the object behind one fence line (a bare fence or a fence
\* with the word json) and before one closing fence, whitespace allowed
\* around the whole and around the object.
FencedObject(text, object) ==
    LET t == Strip(text)
        newline == Find(t, "\n")
    IN /\ newline # 0
       /\ RStrip(SubSeq(t, 1, newline - 1)) \in {Fence, Fence \o JsonWord}
       /\ Len(t) - 3 >= newline
       /\ EndsWith(t, Fence)
       /\ Strip(SubSeq(t, newline + 1, Len(t) - 3)) = object

\* C17: for a raw text that is a JSON object behind one fence line and
\* before one closing fence, _clean_raw_response returns exactly the text
\* of the object, and the object holding only the description "You wait."
\* validates to a reply with every optional field at its default.
C17_FencedObjectIsUnwrapped ==
    (pc = "gsr_returned" /\ IsSome(gsr.raw_response_str)) =>
        \A object \in JsonObjects :
            FencedObject(RawText, object) =>
                /\ CleanRawResponse(RawText) = Some(object)
                /\ object = ObjWait =>
                      ai_result = [reply |-> Some(Reply("You wait.", Some(<<>>), None, None)),
                                   error |-> None]

C17_Witness ==
    /\ pc = "gsr_returned"
    /\ RawText = <<"\n">> \o Fence \o JsonWord \o <<"\n">> \o ObjWait \o <<"\n">> \o Fence \o <<" ">>
    /\ FencedObject(RawText, ObjWait)
    /\ CleanRawResponse(RawText) = Some(ObjWait)
    /\ ai_result.reply = Some(Reply("You wait.", Some(<<>>), None, None))

\* The names of the replacement fields of a template that parses.
NamedPlaceholders(template) ==
    LET parts == FormatParts(template, 1, TRUE)
    IN {parts[i].name : i \in {j \in 1..Len(parts) : parts[j].name # <<>>}}

\* Some keyword arguments for its named placeholders format the template.
CanBeFormatted(template) ==
    /\ ~ParseError(FormatParts(template, 1, TRUE))
    /\ \E kwargs \in [NamedPlaceholders(template) -> {StrValue(<<"Crypt">>), IntValue(<<"7">>)}] :
          IsSome(FormatWith(FormatParts(template, 1, TRUE), kwargs, FALSE))

ContainsText(text, part) ==
    \E i \in 1..(Len(text) - Len(part) + 1) : SubSeq(text, i, i + Len(part) - 1) = part

\* C18: _format_system_prompt always returns a text; in it every named
\* placeholder of the template that the context lacks reads
\* <key_unavailable>, context keys the template does not use change
\* nothing, and a template that cannot be formatted at all comes back
\* unchanged.
C18_MissingKeysAreMarked ==
    pc = "gsr_formatted" =>
        LET template == gsr.system_prompt_template
            used == DOMAIN gsr.context \cap NamedPlaceholders(template)
        IN /\ IsSome(gsr.system_prompt)
           /\ CanBeFormatted(template) =>
                 \A key \in NamedPlaceholders(template) \ DOMAIN gsr.context :
                     ContainsText(Val(gsr.system_prompt), Unavailable(key).text)
           /\ Val(gsr.system_prompt) = FormatSystemPrompt(template, [k \in used |-> gsr.context[k]])
           /\ ~CanBeFormatted(template) => Val(gsr.system_prompt) = template

\* handle_player_command is at step 7 with a validated reply whose
\* room_description is not empty.
EnteringNewRoom == pc = "hpc_room" /\ TruthyStr(Val(ai_result.reply).room_description)

\* C19: step 7 of handle_player_command, given a reply with a non-empty
\* room_description, replaces the room's description with it, empties the
\* room's event list, adds exactly 1 to rooms_cleared and goes on to the
\* commit that returns success.
C19_RoomDescriptionReplacesRoom ==
    [][EnteringNewRoom =>
          /\ pc' = "hpc_commit"
          /\ Val(Val(mem').current_room).description = Val(Val(ai_result.reply).room_description)
          /\ Val(Val(mem').current_room).events = <<>>
          /\ Val(mem').rooms_cleared = Val(mem).rooms_cleared + 1]_vars

\* C20: step 7 of handle_player_command, given a reply with a
\* room_description and neither new_room_title nor new_room_exits, goes on
\* to the commit with a room titled "Unknown Area" that has no exits, and
\* rooms_cleared one higher.
C20_UntitledRoomGetsDefaults ==
    [][(EnteringNewRoom /\ IsNone(Val(ai_result.reply).new_room_title)) =>
          /\ pc' = "hpc_commit"
          /\ Val(Val(mem').current_room).title = "Unknown Area"
          /\ Val(Val(mem').current_room).exits = <<>>
          /\ Val(mem').rooms_cleared = Val(mem).rooms_cleared + 1]_vars

\* handle_player_command has returned success.
HPCSucceeded ==
    pc = "idle" /\ ret.op = "handle_player_command" /\ IsNone(ret.error) /\ IsSome(ret.reply)

\* The room and the room counter of a session.
RoomState(gs) == [current_room |-> gs.current_room, rooms_cleared |-> gs.rooms_cleared]

\* C21: after a successful handle_player_command whose reply has no
\* room_description (null or the empty string), the room (title,
\* description, exits, events) and rooms_cleared are what they were before
\* the command, in the returned session and in the committed one, whatever
\* new_room_title and triggered_events the reply has.
C21_StationaryTurnKeepsRoom ==
    (HPCSucceeded /\ ~TruthyStr(Val(ret.reply).room_description)) =>
        /\ RoomState(Val(ret.session)) = RoomState(LoadedSession)
        /\ RoomState(db[game_state_id]) = RoomState(LoadedSession)

C21_Witness ==
    /\ HPCSucceeded
    /\ Val(ret.reply).room_description = Some("")
    /\ Val(ret.reply).new_room_title = Some("Crypt")
    /\ db # pre
    /\ IsSome(LoadedSession.current_room)
    /\ RoomState(db[game_state_id]) = RoomState(LoadedSession)

\* The step commits a handle_player_command whose reply has a non-empty
\* room_description.
CommitsRoomChange ==
    /\ pc = "hpc_commit" /\ pc' = "idle" /\ IsNone(ret'.error)
    /\ TruthyStr(Val(ai_result.reply).room_description)

TurnNumbers(gs) == [i \in 1..Len(gs.chat_messages) |-> gs.chat_messages[i].turn_number]
StrictlyIncreasing(q) == \A i \in 1..(Len(q) - 1) : q[i] < q[i + 1]
IsPrefix(p, q) == Len(p) <= Len(q) /\ SubSeq(q, 1, Len(p)) = p

\* C23: the turn numbers of every committed history increase strictly in
\* history order; a step leaves every committed message where and as it
\* was; a session is first committed with the single turn 0, and a commit
\* of a command on a history of n messages adds the turns n and n + 1 and
\* nothing else.
C23_TurnNumbersIncrease ==
    /\ [](\A i \in 1..Len(db) : StrictlyIncreasing(TurnNumbers(db[i])))
    /\ [][\A i \in 1..Len(db') :
             IF i > Len(db) THEN TurnNumbers(db'[i]) = <<0>>
             ELSE /\ IsPrefix(db[i].chat_messages, db'[i].chat_messages)
                  /\ TurnNumbers(db'[i]) \in
                        {TurnNumbers(db[i]),
                         TurnNumbers(db[i]) \o <<Len(db[i].chat_messages),
                                                 Len(db[i].chat_messages) + 1>>}]_vars

C23_Witness ==
    /\ HPCSucceeded
    /\ TurnNumbers(LoadedSession) = <<0, 1, 2>>
    /\ TurnNumbers(db[game_state_id]) = <<0, 1, 2, 3, 4>>
    /\ IsPrefix(LoadedSession.chat_messages, db[game_state_id].chat_messages)

\* The messages of a session after those of the session it was loaded as.
Appended(gs) ==
    SubSeq(gs.chat_messages, Len(LoadedSession.chat_messages) + 1, Len(gs.chat_messages))

\* The command and the reply, in this order, as chat messages.
CommandThenReply ==
    <<[role |-> "user", content |-> <<"text", command>>],
      [role |-> "assistant", content |-> ModelDumpJson(Val(ai_result.reply))]>>

RolesAndContents(messages) ==
    [i \in 1..Len(messages) |-> [role |-> messages[i].role, content |-> messages[i].content]]

\* C24: handle_player_command appends the command and then the reply, and
\* nothing else, to the history: at the history step the loaded session is
\* untouched, at the effects step the two messages are there and player and
\* room are untouched, at the room step the room is untouched, nothing is
\* committed before the commit step, and a successful return has committed
\* exactly these two messages after the earlier history.
C24_HistoryThenEffectsThenRoomThenCommit ==
    /\ pc = "hpc_history" => Val(mem) = LoadedSession
    /\ pc \in {"hpc_effects", "hpc_room", "hpc_commit"} =>
          /\ IsPrefix(LoadedSession.chat_messages, Val(mem).chat_messages)
          /\ RolesAndContents(Appended(Val(mem))) = CommandThenReply
    /\ pc = "hpc_effects" =>
          Val(mem) = [LoadedSession EXCEPT !.chat_messages = Val(mem).chat_messages]
    /\ pc = "hpc_room" => RoomState(Val(mem)) = RoomState(LoadedSession)
    /\ pc \in {"hpc_history", "hpc_effects", "hpc_room", "hpc_commit"} => db = pre
    /\ HPCSucceeded =>
          /\ IsPrefix(LoadedSession.chat_messages, db[game_state_id].chat_messages)
          /\ RolesAndContents(Appended(db[game_state_id])) = CommandThenReply

C24_Witness ==
    /\ HPCSucceeded
    /\ Len(db[game_state_id].chat_messages) = Len(LoadedSession.chat_messages) + 2
    /\ RolesAndContents(Appended(db[game_state_id])) = CommandThenReply
    /\ db[game_state_id].player # LoadedSession.player

\* handle_player_command is inside its call of the AI service, or has just
\* got the result.
HPCAwaitsAI ==
    caller = "handle_player_command" /\ pc \in {"gsr_primary", "gsr_fallback", "gsr_parse", "hpc_after_ai"}

\* C25: while handle_player_command is in its AI call the session is as
\* loaded and nothing is committed; a provider is queried only from there,
\* the query changing neither; a command queries at most twice; and from
\* the first mutation on the list of queries stays as it is.
C25_QueriesBeforeMutation ==
    /\ [](HPCAwaitsAI => Val(mem) = LoadedSession /\ db = pre)
    /\ [](Len(gsr.queries) <= 2)
    /\ [][(Len(gsr'.queries) > Len(gsr.queries)) =>
             /\ pc \in {"gsr_primary", "gsr_fallback"}
             /\ mem' = mem /\ db' = db]_vars
    /\ [][(pc \in {"hpc_history", "hpc_effects", "hpc_room", "hpc_commit"}) =>
             (gsr'.queries = gsr.queries)]_vars

C25_Witness ==
    /\ pc = "hpc_effects"
    /\ Len(gsr.queries) = 2
    /\ Val(mem) # LoadedSession
    /\ db = pre

\* Both calls loaded the same committed session, so each loaded before the
\* other committed, and both have returned success.
BothCommittedFromOneLoad ==
    /\ pc = <<"returned", "returned">>
    /\ pre[1] = pre[2]
    /\ \A k \in {1, 2} : IsNone(ret[k].error) /\ IsSome(ret[k].reply)

\* The player call k computes from the session it loaded.
ComputedPlayer(k) ==
    Persisted([Val(pre[k]) EXCEPT
                  !.player = ApplyAIEffects(@, Val(ai_result[k].reply)).p]).player

\* C26: nothing serializes two handle_player_command calls on one
\* session.  When both loaded the same committed session and both
\* committed, the committed history ends with the turn numbers n, n + 1,
\* n, n + 1 (n the length of the loaded history), and every committed stat
\* and the committed inventory are what one of the two calls computed from
\* the loaded session alone, never the sum of both updates.
C26_RacingCommandsBothCommit ==
    BothCommittedFromOneLoad =>
        LET n == Len(Val(pre[1]).chat_messages)
            committed == db[game_state_id]
        IN /\ TurnNumbers(committed) = TurnNumbers(Val(pre[1])) \o <<n, n + 1, n, n + 1>>
           /\ \E k \in {1, 2} : committed.player.health = ComputedPlayer(k).health
           /\ \E k \in {1, 2} : committed.player.gold = ComputedPlayer(k).gold
           /\ \E k \in {1, 2} : committed.player.experience = ComputedPlayer(k).experience
           /\ \E k \in {1, 2} : committed.player.inventory_items = ComputedPlayer(k).inventory_items

\* Both calls found a sword: each counted gold 10 + 5 and a second sword,
\* and the committed player has 15 gold and two swords, not 20 and three.
C26_Witness ==
    /\ BothCommittedFromOneLoad
    /\ \A k \in {1, 2} : Val(ai_result[k].reply).triggered_events = Some(<<EvLoot>>)
    /\ Val(pre[1]).player.gold = StartGold
    /\ db[game_state_id].player.gold = StartGold + 5
    /\ db[game_state_id].player.inventory_items = <<[item_id |-> 1, quantity |-> 2, deleted |-> FALSE]>>
    /\ TurnNumbers(db[game_state_id]) = <<0, 1, 2, 1, 2>>

\* The inventory collection of the player in the open transaction, and
\* the names an effect block may carry.
InventoryNow == Val(mem).player.inventory_items
ItemNames == {RustySword, rustysword, RUSTYSWORD, GoldenKey, Torch}

\* Index of the entry by which the player holds an item of this name,
\* letter case and surrounding whitespace aside; 0 when the player holds
\* none.  An entry deleted in the transaction is not held.
HeldAs(inv, name) ==
    LET hits == {i \in 1..Len(inv) :
                    ~inv[i].deleted /\ Lower(ItemById(inv[i].item_id).name) = Strip(Lower(name))}
    IN IF hits = {} THEN 0 ELSE CHOOSE i \in hits : TRUE

\* The first event of the reply without its removals.
WithoutFirstRemovals(events) ==
    <<[effects |-> Some([Val(Head(events).effects) EXCEPT !.inventory_remove = <<>>])]>>
    \o Tail(events)

\* C27: removing a name the player does not hold leaves the inventory as
\* it is; and when no removal of the first event names a held item, the
\* call raises nothing and ends with the player it ends with when that
\* event has no removals at all: its additions and the later events take
\* effect as they would.
C27_RemovingAbsentItemIsNoOp ==
    /\ (pc \in {"effects_ready", "effects_done"}) =>
          \A name \in ItemNames :
              HeldAs(InventoryNow, name) = 0 =>
                  LiveEntries(RemoveOne([inv |-> InventoryNow, count |-> 0], name).inv)
                      = LiveEntries(InventoryNow)
    /\ (/\ pc \in {"effects_done", "effects_raised"}
        /\ ReplyEvents # <<>>
        /\ IsSome(Head(ReplyEvents).effects)
        /\ Val(Head(ReplyEvents).effects).inventory_remove # <<>>
        /\ \A i \in 1..Len(Val(Head(ReplyEvents).effects).inventory_remove) :
              HeldAs(LoadedSession.player.inventory_items,
                     Val(Head(ReplyEvents).effects).inventory_remove[i]) = 0) =>
          /\ pc = "effects_done"
          /\ Persisted(Val(mem)).player =
                Persisted([LoadedSession EXCEPT !.player =
                    ApplyEvents([p |-> @, raised |-> FALSE, flushed |-> FALSE],
                                WithoutFirstRemovals(ReplyEvents)).p]).player

\* A golden key the player lacks was to be removed and a sword added: the
\* sword the player had is now two.
C27_Witness ==
    /\ pc = "effects_done"
    /\ ReplyEvents = <<[effects |-> Some([NoEffects EXCEPT !.inventory_remove = <<GoldenKey>>,
                                                         !.inventory_add = <<RustySword>>])]>>
    /\ LoadedSession.player.inventory_items = <<[item_id |-> 1, quantity |-> 1, deleted |-> FALSE]>>
    /\ InventoryNow = <<[item_id |-> 1, quantity |-> 2, deleted |-> FALSE]>>

\* An inventory without its entry i.
WithoutEntry(inv, i) == SubSeq(inv, 1, i - 1) \o SubSeq(inv, i + 1, Len(inv))

\* C28: removing a name the player holds takes 1 from the quantity of the
\* entry when it is above 1 and takes the entry away when it is 1; and
\* every entry of the inventory, in the transaction and as committed, has
\* a quantity of at least 1.
C28_RemovalDecrementsOrDeletes ==
    (pc \in {"effects_ready", "effects_done"}) =>
        /\ \A i \in 1..Len(InventoryNow) : InventoryNow[i].quantity >= 1
        /\ \A name \in ItemNames :
              LET i == HeldAs(InventoryNow, name)
                  after == LiveEntries(RemoveOne([inv |-> InventoryNow, count |-> 0], name).inv)
              IN i # 0 =>
                    /\ \A j \in 1..Len(after) : after[j].quantity >= 1
                    /\ after = LiveEntries(IF InventoryNow[i].quantity > 1
                                           THEN [InventoryNow EXCEPT ![i].quantity = @ - 1]
                                           ELSE WithoutEntry(InventoryNow, i))

\* Two events each removed a sword from a player with two: the first left
\* one, the second none.
C28_Witness ==
    /\ pc = "effects_done"
    /\ LoadedSession.player.inventory_items = <<[item_id |-> 1, quantity |-> 2, deleted |-> FALSE]>>
    /\ Len(ReplyEvents) = 2
    /\ \A k \in 1..2 : ReplyEvents[k] = [effects |-> Some([NoEffects EXCEPT !.inventory_remove = <<RUSTYSWORD>>])]
    /\ InventoryNow = <<[item_id |-> 1, quantity |-> 1, deleted |-> TRUE]>>
    /\ LiveEntries(InventoryNow) = <<>>

\* C29: adding a name the player holds, whatever its letter case, adds
\* exactly 1 to the quantity of the entry held and leaves every other
\* entry and the number of entries as they are; no inventory holds two
\* entries for one item.
C29_AddingHeldItemIncrements ==
    (pc \in {"effects_ready", "effects_done"}) =>
        /\ \A i, j \in 1..Len(InventoryNow) :
              InventoryNow[i].item_id = InventoryNow[j].item_id => i = j
        /\ \A name \in ItemNames :
              LET i == HeldAs(InventoryNow, name)
                  after == AddOne([inv |-> InventoryNow, count |-> 0, raised |-> FALSE], name)
              IN i # 0 =>
                    /\ ~after.raised
                    /\ after.inv = [InventoryNow EXCEPT ![i].quantity = @ + 1]

\* "rusty sword" was added to a player holding one Rusty Sword.
C29_Witness ==
    /\ pc = "effects_done"
    /\ LoadedSession.player.inventory_items = <<[item_id |-> 1, quantity |-> 1, deleted |-> FALSE]>>
    /\ ReplyEvents = <<[effects |-> Some([NoEffects EXCEPT !.inventory_add = <<rustysword>>])]>>
    /\ InventoryNow = <<[item_id |-> 1, quantity |-> 2, deleted |-> FALSE]>>

AddsOf(name) == [effects |-> Some([NoEffects EXCEPT !.inventory_add = <<name>>])]

\* C30: adding a name the player does not hold gives the player one more
\* entry, held under that name with quantity 1; and from an empty
\* inventory an event adding "Rusty Sword" and a second adding "rusty
\* sword" leave exactly one entry, with quantity 2.
C30_AddingNewItemCreatesEntry ==
    /\ (pc \in {"effects_ready", "effects_done"}) =>
          \A name \in ItemNames :
              LET after == LiveEntries(AddOne([inv |-> InventoryNow, count |-> 0,
                                               raised |-> FALSE], name).inv)
              IN HeldAs(InventoryNow, name) = 0 =>
                    /\ Len(after) = Len(LiveEntries(InventoryNow)) + 1
                    /\ HeldAs(after, name) # 0
                    /\ after[HeldAs(after, name)].quantity = 1
    /\ (/\ pc = "effects_done"
        /\ LoadedSession.player.inventory_items = <<>>
        /\ ReplyEvents = <<AddsOf(RustySword), AddsOf(rustysword)>>) =>
          LiveEntries(InventoryNow) = <<[item_id |-> 1, quantity |-> 2, deleted |-> FALSE]>>

\* The three numeric rules of an effects block, each applied whatever
\* became of the other two.
EachStatOnItsOwn(p, eff) ==
    LET alone(q) == [ok |-> TRUE, p |-> q]
    IN XpStep(alone(GoldStep(alone(HealthStep(alone(p), eff).p), eff).p), eff).p

\* The player once every effect the events ask for has been applied, in
\* the order given: each parseable delta by its rule, then the removals,
\* then the additions.
RECURSIVE EveryEffectApplied(_, _)
EveryEffectApplied(p, events) ==
    IF events = <<>> THEN p
    ELSE IF IsNone(Head(events).effects) THEN EveryEffectApplied(p, Tail(events))
    ELSE LET eff == Val(Head(events).effects)
             p1 == EachStatOnItsOwn(p, eff)
             rem == RemoveAll([inv |-> p1.inventory_items, count |-> 0], eff.inventory_remove)
             add == AddAll([inv |-> rem.inv, count |-> 0, raised |-> FALSE], eff.inventory_add)
         IN EveryEffectApplied([p1 EXCEPT !.inventory_items = add.inv], Tail(events))

\* C31: when handle_player_command has returned for a known session, the
\* committed player is either the player as it was before the call (no
\* effect applied) or that player with every effect of the reply's events
\* applied (negative xp and removals of absent items being no-ops); after
\* an error return it is the player as it was before.
C31_EffectsAllOrNothing ==
    /\ HPCSucceeded =>
          LET before == LoadedSession.player
              all == EveryEffectApplied(before, Val(Val(ret.reply).triggered_events))
          IN db[game_state_id].player
                \in {before, [all EXCEPT !.inventory_items = LiveEntries(@)]}
    /\ (HPCReturnedError /\ IsSome(SessionBefore)) =>
          db[game_state_id].player = LoadedSession.player

\* The events with one rule's request taken out of the first event.
WithoutRule(events, rule) ==
    LET eff == Val(Head(events).effects)
    IN <<[effects |-> Some(IF rule \in {"health", "gold", "xp"}
                           THEN [eff EXCEPT ![rule] = None]
                           ELSE [eff EXCEPT ![rule] = <<>>])]>> \o Tail(events)

\* What each rule writes of the player.
WrittenBy(rule) ==
    CASE rule = "health" -> {"health"}
      [] rule = "gold" -> {"gold"}
      [] rule = "xp" -> {"experience"}
      [] OTHER -> {"inventory_items"}

\* C32: the rules of one event are independent: when _apply_ai_effects has
\* returned, each part of the player that a rule of the first event does
\* not write is what it would be had the event not carried that rule's
\* request at all, whether the request was applied, rejected or
\* unparseable.
C32_RulesAreIndependent ==
    (pc = "effects_done" /\ ReplyEvents # <<>>) =>
        \A rule \in {"health", "gold", "xp", "inventory_remove"} :
            LET other == ApplyAIEffects(LoadedSession.player,
                             [Val(ai_result.reply) EXCEPT !.triggered_events =
                                 Some(WithoutRule(ReplyEvents, rule))]).p
            IN \A f \in {"health", "gold", "experience", "inventory_items"} \ WrittenBy(rule) :
                  Val(mem).player[f] = other[f]

SessionNotFoundText == "Game session not found. Please start a new game."

\* C33: handle_player_command with an id no session has returns at once:
\* it returns (null, null, error), no provider has been queried and no
\* health probe made, nothing is loaded, flushed or committed, and the step
\* leaves the AI service and the database as they were.
C33_UnknownSessionTouchesNothing ==
    /\ []((caller = "handle_player_command" /\ game_state_id \notin 1..Len(pre)) =>
             /\ pc = "idle"
             /\ ret = [op |-> "handle_player_command", session |-> None, reply |-> None,
                       error |-> Some(<<SessionNotFoundText>>)]
             /\ gsr.queries = <<>>
             /\ gsr.probes = 0
             /\ ai_result = NoResult
             /\ mem = None
             /\ ~flushed
             /\ db = pre)
    /\ [][(HPC_Begin /\ (game_state_id' \notin 1..Len(db))) =>
             (ai' = ai /\ db' = db /\ pc' = "idle")]_vars

C33_Witness ==
    /\ pc = "idle"
    /\ ret.op = "handle_player_command"
    /\ ret.error = Some(<<SessionNotFoundText>>)
    /\ game_state_id = 2
    /\ Len(db) = 1
    /\ ai.local_checked

\* An error string with at least one character.
NonEmptyError(e) == IsSome(e) /\ \E i \in 1..Len(Val(e)) : Val(e)[i] # ""

\* C34: whenever generate_structured_response has returned, exactly one
\* component of the pair is non-null: a reply with no error, or no reply
\* with a non-empty error string, whichever providers were tried and
\* whatever they answered.
C34_ReplyOrErrorNeverBoth ==
    (pc \in {"sng_after_ai", "hpc_after_ai"}) =>
        \/ IsSome(ai_result.reply) /\ IsNone(ai_result.error)
        \/ IsNone(ai_result.reply) /\ NonEmptyError(ai_result.error)

\* C34 witness: the second provider returned a text after the first one
\* failed, and the text did not parse.
C34_Witness ==
    /\ pc = "hpc_after_ai"
    /\ Len(gsr.queries) = 2
    /\ IsSome(gsr.raw_response_str)
    /\ IsNone(ai_result.reply)
    /\ NonEmptyError(ai_result.error)

NotConfiguredText == "Cloud AI service (Gemini) is not configured or available."

\* Gemini was the first choice of the latest call and no Gemini client exists.
CloudFirstUnconfigured == gsr.primary_service = "Gemini" /\ ~ai.gemini_client

\* C35: when Gemini is the first choice (local not preferred, or its probe
\* failed) and no Gemini client is configured, the call issues no provider
\* query at all, local Ollama included, and returns (null, error) with the
\* not-configured message.
C35_UnconfiguredCloudQueriesNothing ==
    CloudFirstUnconfigured =>
        /\ gsr.queries = <<>>
        /\ IsNone(gsr.raw_response_str)
        /\ GenerateReturned =>
              ai_result = [reply |-> None, error |-> Some(<<NotConfiguredText>>)]

\* C35 witness: such a call has returned to handle_player_command while a
\* local URL is set and the last probe found local Ollama available.
C35_Witness ==
    /\ pc = "hpc_after_ai"
    /\ CloudFirstUnconfigured
    /\ ~ai.use_local_preference
    /\ ai.local_url
    /\ ai.local_available
    /\ gsr.queries = <<>>
    /\ IsSome(ai_result.error)

Gemini403Text == "Gemini API error (Status 403)"

\* The first query of the latest call went to Gemini and was answered
\* with status 403, and the fallback step is over.
CloudDeniedFirst ==
    /\ pc \in {"gsr_parse", "sng_after_ai", "hpc_after_ai"}
    /\ Len(gsr.queries) >= 1
    /\ FirstQuery = [provider |-> "cloud", outcome |-> "status403"]

\* C36: after a status 403 from Gemini as the first attempt, local Ollama
\* is queried (once) exactly when a local URL is set and the memoized
\* probe reports it available; otherwise there is no second query and the
\* error handed back is the Gemini 403 error.  When local was preferred
\* and Gemini came first because the probe had failed, the memo still
\* says unavailable and there is no second query.
C36_DenialFallsBackOnlyToAvailableLocal ==
    CloudDeniedFirst =>
        /\ Len(gsr.queries) <= 2
        /\ OneRetryAgainst("local") <=> (ai.local_url /\ ai.local_available)
        /\ NoRetry =>
              /\ gsr.error_message = Some(<<Gemini403Text>>)
              /\ pc # "gsr_parse" => ai_result = [reply |-> None, error |-> Some(<<Gemini403Text>>)]
        /\ (ai.use_local_preference /\ ai.local_url) =>
              (NoRetry /\ ~ai.local_available /\ gsr.probes <= 1)

\* C36 witness: local was preferred, its probe had failed, Gemini answered
\* 403 and the call returned that error after a single query.
C36_Witness ==
    /\ pc = "hpc_after_ai"
    /\ CloudDeniedFirst
    /\ ai.use_local_preference
    /\ ai.local_url
    /\ ai.local_checked
    /\ ~ai.local_available
    /\ NoRetry
    /\ ai_result.error = Some(<<Gemini403Text>>)

\* The reply has one event, which removes and adds the Rusty Sword.
SwapsSword ==
    ReplyEvents = <<[effects |-> Some([NoEffects EXCEPT !.inventory_remove = <<RUSTYSWORD>>,
                                                        !.inventory_add = <<RustySword>>])]>>

\* C37: when one event removes an item the player holds with quantity 1
\* and adds that same item, what a commit writes after _apply_ai_effects
\* is a player who holds the item with quantity 1.
C37_RemoveThenAddSameItemKeepsOne ==
    (/\ pc = "effects_done"
     /\ SwapsSword
     /\ LoadedSession.player.inventory_items = <<[item_id |-> 1, quantity |-> 1, deleted |-> FALSE]>>) =>
        Persisted(Val(mem)).player.inventory_items =
            <<[item_id |-> 1, quantity |-> 1, deleted |-> FALSE]>>

\* The reply in hand has no triggered events: the list is empty (as it is
\* when the field is absent) or the field is an explicit null.
NoTriggeredEvents == Val(ai_result.reply).triggered_events \in {None, Some(<<>>)}

\* C38: with a validated reply that has no triggered events, the effects
\* step of handle_player_command raises nothing and leaves the player's
\* stats and inventory as loaded, the command going on to the room step;
\* and when the command has succeeded the committed player is the player
\* as it was before.
C38_NoEventsNoEffects ==
    /\ [][(pc = "hpc_effects" /\ NoTriggeredEvents) =>
             (pc' = "hpc_room" /\ (Val(mem').player = LoadedSession.player))]_vars
    /\ []((HPCSucceeded /\ Val(ret.reply).triggered_events \in {None, Some(<<>>)}) =>
             db[game_state_id].player = LoadedSession.player)

\* start_new_game holds a validated reply with a description and a list of
\* events, none of which carries effects.
SNGHoldsValidReply ==
    /\ pc = "sng_after_ai"
    /\ IsSome(ai_result.reply)
    /\ IsNone(ai_result.error)
    /\ Val(ai_result.reply).action_result_description # ""
    /\ IsSome(Val(ai_result.reply).triggered_events)
    /\ \A i \in 1..Len(ReplyEvents) : IsNone(ReplyEvents[i].effects)

\* The step returns the new session: (GameState, null), committed, with
\* the player and the room the first reply gives and one chat message.
SNGReturnsNewSession ==
    /\ IsNone(ret'.error)
    /\ IsSome(ret'.session)
    /\ db' = Append(db, Val(ret'.session))
    /\ LET gs == Val(ret'.session)
           r == Val(ai_result.reply)
       IN /\ gs.player.health = 100
          /\ gs.player.max_health = 100
          /\ gs.player.gold = 10
          /\ gs.rooms_cleared = 0
          /\ Val(gs.current_room).description = r.action_result_description
          /\ Val(gs.current_room).title =
                (IF TruthyStr(r.new_room_title) THEN Val(r.new_room_title) ELSE "The Beginning")
          /\ gs.chat_messages =
                <<[role |-> "assistant", content |-> ModelDumpJson(r), turn_number |-> 0]>>

\* C39: start_new_game is all-or-nothing: holding a valid reply it can
\* finish by committing and returning the new session (health 100/100,
\* gold 10, rooms_cleared 0, the room described by action_result_description
\* and titled "The Beginning" by default, one assistant message of turn 0);
\* and whenever it has returned an error it returned no session and the
\* committed rows are those from before the call.
C39_StartNewGameAllOrNothing ==
    /\ SNGHoldsValidReply => ENABLED (SNG_Finish /\ SNGReturnsNewSession)
    /\ (pc = "idle" /\ ret.op = "start_new_game" /\ IsSome(ret.error)) =>
          (IsNone(ret.session) /\ db = pre)

====
